---- MODULE Spec2Model ----
(***************************************************************************)
(* paigeant: routing-slip workflow orchestration.                          *)
(*                                                                         *)
(* The model covers the dispatcher (dispatch.py), the routing slip and the *)
(* envelope (contracts.py), the in-memory transport                        *)
(* (transports/inmemory.py), the worker loop (execute.py), the in-memory   *)
(* repository (persistence/inmemory.py) and the direct use of the public   *)
(* API made by the test-suite (a driver that takes an envelope from a      *)
(* queue, runs the edit_itinerary tool on it and forwards it).             *)
(*                                                                         *)
(* A Python exception is modelled as an outcome: an operator that models a *)
(* call returns a record with a field raised ("" when the call returned).  *)
(***************************************************************************)
EXTENDS Integers, Sequences, FiniteSets, TLC

(***************************************************************************)
(* Bounds of the model.                                                    *)
(***************************************************************************)
MaxItinerary == 2
MaxWorkflows == 1
MaxNew == 2
EditLimit == 1
MaxClock == 2
MaxCopies == 2
MaxRows == 3
MaxMessages == 3
MaxBad == 1

(***************************************************************************)
(* Names.                                                                  *)
(***************************************************************************)
Agents == {"A", "B", "F"}
Workers == Agents
Outputs == {"ok"}
EmptyDict == [x \in {} |-> "v"]
VariableSets == {EmptyDict, [k |-> "v"]}
OboTokens == {"tok"}
\* the agents the dispatcher puts on an itinerary, and the agents of the
\* steps a running step asks to insert
ItineraryAgents == {"A", "B"}
InsertableAgents == {"B", "F"}

Min(a, b) == IF a < b THEN a ELSE b
Max(a, b) == IF a > b THEN a ELSE b
Last(s) == s[Len(s)]
SeqsUpTo(S, n) == UNION {[1..k -> S] : k \in 0..n}

(***************************************************************************)
(* contracts.py: ActivitySpec, RoutingSlip, PaigeantMessage.               *)
(* deps is always the "no deps" value here and arguments is always empty.  *)
(***************************************************************************)
ActivitySpec(a) == [agent_name |-> a, prompt |-> "p"]

Activities == {ActivitySpec(a) : a \in Agents}
Insertable == {ActivitySpec(a) : a \in InsertableAgents}

\* a slip that counts the steps it is built with as inserted steps
RoutingSlip_counted(itin) ==
    [itinerary |-> itin, executed |-> <<>>, inserted_steps |-> Len(itin)]

\* RoutingSlip(itinerary=...): executed and inserted_steps keep their defaults
RoutingSlip(itin) == [itinerary |-> itin, executed |-> <<>>, inserted_steps |-> 0]

\* RoutingSlip.next_step: the head as a sequence of length <= 1 (<<>> is None)
next_step(slip) == IF slip.itinerary # <<>> THEN <<Head(slip.itinerary)>> ELSE <<>>

\* RoutingSlip.previous_step
previous_step(slip) == IF slip.executed # <<>> THEN <<Last(slip.executed)>> ELSE <<>>

\* RoutingSlip.is_finished
is_finished(slip) == slip.itinerary = <<>>

\* mark_complete without the comparison of the head with the step
mark_complete_unguarded(slip, step) ==
    IF slip.itinerary # <<>>
    THEN [slip EXCEPT !.itinerary = Tail(slip.itinerary),
                      !.executed = Append(slip.executed, Head(slip.itinerary))]
    ELSE slip

\* RoutingSlip.mark_complete
mark_complete(slip, step) ==
    IF slip.itinerary # <<>> /\ Head(slip.itinerary) = step
    THEN [slip EXCEPT !.itinerary = Tail(slip.itinerary),
                      !.executed = Append(slip.executed, Head(slip.itinerary))]
    ELSE slip

\* new_steps[-remaining:], the last steps of the list instead of the first
Prefix_last(s, n) == SubSeq(s, Len(s) - Min(Len(s), Max(n, 0)) + 1, Len(s))

\* new_steps[:remaining]
Prefix(s, n) == SubSeq(s, 1, Min(Len(s), Max(n, 0)))

\* RoutingSlip.insert_activities without the cap on the remaining budget
insert_activities_nocap(slip, new_steps, limit) ==
    LET allowed == Prefix(new_steps, limit)
    IN IF allowed = <<>>
       THEN [slip |-> slip, ret |-> 0]
       ELSE [slip |-> [slip EXCEPT
                        !.itinerary = Prefix(slip.itinerary, 1) \o allowed
                                      \o SubSeq(slip.itinerary, 2, Len(slip.itinerary)),
                        !.inserted_steps = slip.inserted_steps + Len(allowed)],
             ret |-> Len(allowed)]

\* RoutingSlip.insert_activities(new_steps, limit): the slip after, and the
\* returned count
insert_activities(slip, new_steps, limit) ==
    LET remaining == Max(0, limit - slip.inserted_steps)
        allowed == Prefix(new_steps, remaining)
    IN IF allowed = <<>>
       THEN [slip |-> slip, ret |-> 0]
       ELSE [slip |-> [slip EXCEPT
                        !.itinerary = Prefix(slip.itinerary, 1) \o allowed
                                      \o SubSeq(slip.itinerary, 2, Len(slip.itinerary)),
                        !.inserted_steps = slip.inserted_steps + Len(allowed)],
             ret |-> Len(allowed)]

\* PaigeantMessage(...): the model has no activity_registry field, so the
\* keyword given by the dispatcher is dropped; trace_id keeps its default.
PaigeantMessage(mid, cid, obo, slip, payload) ==
    [message_id |-> mid, correlation_id |-> cid, trace_id |-> "None",
     obo_token |-> obo, routing_slip |-> slip, payload |-> payload]

VARIABLES
    d_itinerary,    \* WorkflowDispatcher._itinerary
    d_registry,     \* WorkflowDispatcher._activity_registry (its keys)
    uuids,          \* number of uuid4 values minted so far
    dispatched,     \* history: correlation_id -> what dispatch_workflow was given
    queues,         \* InMemoryTransport._queues
    lock,           \* InMemoryTransport._lock: "free" or the subscriber holding it
    wpc,            \* position of each worker's start() loop
    held,           \* the delivery each worker is processing
    wres,           \* per worker: the agent outcome and the exception raised
    dmsg,           \* the envelope the test driver holds
    repo,           \* InMemoryWorkflowRepository._workflows
    step_id,        \* InMemoryWorkflowRepository._step_id
    clock,          \* datetime.utcnow()
    grown,          \* history: steps actually added to each workflow's itinerary
    ev,             \* history: the last operation and its outcome
    life,           \* per worker: the lifespan start() was given, and whether it elapsed
    backend,        \* the transport backend get_transport() returned
    hist            \* history: deliveries per envelope, publishes per topic

vars == <<d_itinerary, d_registry, uuids, dispatched, queues, lock, wpc, held,
          wres, dmsg, repo, step_id, clock, grown, ev, life, backend, hist>>

Cids == 1..MaxWorkflows

\* the message_id values an envelope can have
Mids == 1..Max(MaxWorkflows, MaxMessages)

\* one entry of the history variable ev: the operation, who ran it, how it
\* ended ("ok" or the exception), the topic or step it names, the object
\* before and after, a numeric argument and the returned number
EvR(op, who, cid, result, topic, pre, post, n, ret) ==
    [op |-> op, who |-> who, cid |-> cid, result |-> result, topic |-> topic,
     pre |-> pre, post |-> post, n |-> n, ret |-> ret]

Ev(op, who, cid, result, topic, pre, post, n) ==
    EvR(op, who, cid, result, topic, pre, post, n, 0)

NoEv == Ev("init", "-", 0, "-", "-", <<>>, <<>>, 0)

NoHist ==
    [delivered |-> [m \in Mids |-> 0], ran |-> [m \in Mids |-> 0],
     published |-> [t \in Agents |-> 0]]

\* the history after one more delivery of an envelope, one more agent run
\* that returned for it, one more publish on a topic
Delivered(h, m) == [h EXCEPT !.delivered[m] = @ + 1]
Ran(h, m) == [h EXCEPT !.ran[m] = @ + 1]
Published(h, t) == [h EXCEPT !.published[t] = @ + 1]

NoRes == [agent |-> "-", raised |-> "", pre |-> <<>>, added |-> <<>>]

Init ==
    /\ d_itinerary = <<>>
    /\ d_registry = {}
    /\ uuids = 0
    /\ dispatched = <<>>
    /\ queues = [t \in Agents |-> <<>>]
    /\ lock = "free"
    /\ wpc = [w \in Workers |-> "idle"]
    /\ held = [w \in Workers |-> <<>>]
    /\ wres = [w \in Workers |-> NoRes]
    /\ dmsg = <<>>
    /\ repo = [c \in Cids |-> <<>>]
    /\ step_id = 0
    /\ clock = 1
    /\ grown = [c \in Cids |-> 0]
    /\ ev = NoEv
    /\ life = [w \in Workers |-> "none"]
    /\ backend = "inmemory"
    /\ hist = NoHist

(***************************************************************************)
(* transports/inmemory.py                                                  *)
(***************************************************************************)
\* a publish that appends the raw item to the deque twice
publish_twice(q, topic, message) ==
    [q EXCEPT ![topic] = Append(Append(q[topic], message), message)]

\* InMemoryTransport.publish: the raw item is (message.to_json(), message) and
\* subscribe hands out raw[1], the message object itself
publish(q, topic, message) == [q EXCEPT ![topic] = Append(q[topic], message)]

(***************************************************************************)
(* dispatch.py                                                             *)
(***************************************************************************)
\* WorkflowDispatcher.add_activity(..., register_only=False)
add_activity(a) ==
    /\ Len(d_itinerary) < MaxItinerary
    /\ d_registry' = d_registry \cup {a}
    /\ d_itinerary' = Append(d_itinerary, ActivitySpec(a))
    /\ ev' = Ev("add_activity", "dispatcher", 0, "ok", a, <<>>, <<>>, 0)
    /\ UNCHANGED <<life, backend, hist, uuids, dispatched, queues, lock, wpc, held, wres, dmsg, repo,
                   step_id, clock, grown>>

\* WorkflowDispatcher.register_activity
register_activity(a) ==
    /\ a \notin d_registry
    /\ d_registry' = d_registry \cup {a}
    /\ ev' = Ev("register_activity", "dispatcher", 0, "ok", a, <<>>, <<>>, 0)
    /\ UNCHANGED <<life, backend, hist, d_itinerary, uuids, dispatched, queues, lock, wpc, held, wres,
                   dmsg, repo, step_id, clock, grown>>

\* payload=variables or {} with one more key
dispatch_payload_extra(variables) == [x \in DOMAIN variables \cup {"trace"} |-> "v"]

\* payload=variables or {}
dispatch_payload(variables) == variables

\* WorkflowDispatcher.dispatch_workflow(transport, variables, obo_token).
\* The two uuid4 values of one dispatch (correlation_id, message_id) are the
\* same index in two separate name spaces.  With an empty itinerary
\* first_step is None and first_step.agent_name raises AttributeError; the
\* uuids minted for that call are never seen and are not counted.
dispatch_workflow(variables, obo) ==
    LET cid == uuids + 1
        routing_slip == RoutingSlip(d_itinerary)
        message == PaigeantMessage(cid, cid, obo, routing_slip,
                                   dispatch_payload(variables))
        first_step == next_step(routing_slip)
    IN IF first_step = <<>>
       THEN /\ ev' = Ev("dispatch_workflow", "dispatcher", 0, "AttributeError",
                        "-", <<>>, <<>>, 0)
            /\ UNCHANGED <<life, backend, hist, d_itinerary, d_registry, uuids, dispatched, queues, lock,
                           wpc, held, wres, dmsg, repo, step_id, clock, grown>>
       ELSE /\ uuids < MaxWorkflows
            /\ lock = "free"
            /\ uuids' = cid
            /\ queues' = publish(queues, first_step[1].agent_name, message)
            /\ dispatched' = Append(dispatched,
                                    [itinerary |-> d_itinerary,
                                     variables |-> variables, obo_token |-> obo])
            /\ ev' = Ev("dispatch_workflow", "dispatcher", cid, "ok",
                        first_step[1].agent_name, <<>>, <<message>>, 0)
            /\ hist' = Published(hist, first_step[1].agent_name)
            /\ UNCHANGED <<life, backend, d_itinerary, d_registry, lock, wpc, held, wres, dmsg,
                           repo, step_id, clock, grown>>

(***************************************************************************)
(* persistence/models.py and persistence/inmemory.py                       *)
(* A timestamp is a positive number, 0 is None.  An output dict is a       *)
(* sequence: <<>> is {}, <<"None">> is None, <<"error", e>> is {"error": e}*)
(* and <<"result", r>> is {"result": r}.                                   *)
(***************************************************************************)
\* StepRecord(id=..., correlation_id=..., step_name=..., run_id=...,
\* started_at=...): the model has no field run_id, so that keyword is dropped
StepRecord(id, cid, step_name, started_at) ==
    [id |-> id, correlation_id |-> cid, step_name |-> step_name,
     started_at |-> started_at, completed_at |-> 0, status |-> "None",
     output |-> <<"None">>]

WorkflowInstance(cid, routing_slip, payload) ==
    [correlation_id |-> cid, routing_slip |-> routing_slip, payload |-> payload,
     status |-> "in_progress", steps |-> <<>>]

\* the first index of a sequence that satisfies a test, 0 when there is none
FirstIndex(s, Test(_)) ==
    IF \E i \in 1..Len(s) : Test(s[i])
    THEN CHOOSE i \in 1..Len(s) : Test(s[i]) /\ \A j \in 1..(i - 1) : ~Test(s[j])
    ELSE 0

\* InMemoryWorkflowRepository.create_workflow
create_workflow(r, cid, routing_slip, payload) ==
    [r EXCEPT ![cid] = <<WorkflowInstance(cid, routing_slip, payload)>>]

\* InMemoryWorkflowRepository.update_payload
update_payload(r, cid, payload) ==
    IF r[cid] = <<>> THEN r ELSE [r EXCEPT ![cid][1].payload = payload]

\* InMemoryWorkflowRepository.mark_workflow_completed
mark_workflow_completed(r, cid, status) ==
    IF r[cid] = <<>> THEN r ELSE [r EXCEPT ![cid][1].status = status]

\* a mark_step_started that also moves the step into the executed list of
\* the persisted routing slip
mark_step_started_slip(r, sid, now, cid, step_name) ==
    IF r[cid] = <<>>
    THEN [repo |-> r, step_id |-> sid, raised |-> ""]
    ELSE [repo |-> [r EXCEPT
                      ![cid][1].steps = Append(@, StepRecord(sid + 1, cid, step_name, now)),
                      ![cid][1].routing_slip.executed = Append(@, ActivitySpec(step_name))],
          step_id |-> sid + 1, raised |-> ""]

\* InMemoryWorkflowRepository.mark_step_started(correlation_id, step_name,
\* run_id=1).  The loop reads step.run_id of the first record whose
\* step_name matches: a StepRecord has no such attribute and the read raises.
mark_step_started(r, sid, now, cid, step_name) ==
    IF r[cid] = <<>>
    THEN [repo |-> r, step_id |-> sid, raised |-> ""]
    ELSE LET steps == r[cid][1].steps
             SameName(st) == st.step_name = step_name
             i == FirstIndex(steps, SameName)
         IN IF i # 0 /\ "run_id" \notin DOMAIN steps[i]
            THEN [repo |-> r, step_id |-> sid, raised |-> "AttributeError"]
            ELSE IF \E j \in 1..Len(steps) :
                        SameName(steps[j]) /\ steps[j].run_id = 1
                 THEN [repo |-> r, step_id |-> sid, raised |-> ""]
                 ELSE [repo |-> [r EXCEPT ![cid][1].steps =
                                    Append(steps, StepRecord(sid + 1, cid, step_name, now))],
                       step_id |-> sid + 1, raised |-> ""]

\* InMemoryWorkflowRepository.mark_step_completed(correlation_id, step_name,
\* status, output, run_id=1): the same read of step.run_id
mark_step_completed(r, now, cid, step_name, status, output) ==
    IF r[cid] = <<>>
    THEN [repo |-> r, raised |-> ""]
    ELSE LET steps == r[cid][1].steps
             SameName(st) == st.step_name = step_name
             i == FirstIndex(steps, SameName)
             Open(st) == SameName(st) /\ st.run_id = 1 /\ st.completed_at = 0
             k == FirstIndex(steps, Open)
         IN IF i # 0 /\ "run_id" \notin DOMAIN steps[i]
            THEN [repo |-> r, raised |-> "AttributeError"]
            ELSE IF i = 0 \/ k = 0
                 THEN [repo |-> r, raised |-> ""]
                 ELSE [repo |-> [r EXCEPT ![cid][1].steps[k] =
                                    [@ EXCEPT !.completed_at = now, !.status = status,
                                              !.output = output]],
                       raised |-> ""]

\* the readings of datetime.utcnow() a call can get
Nows == clock..Min(clock + 1, MaxClock)

(***************************************************************************)
(* execute.py: ActivityExecutor                                            *)
(***************************************************************************)
\* binding the arguments of a call site to the parameters of a function: a
\* call with the wrong number of positional arguments raises TypeError
BadCall(args, arity) == Len(args) # arity

\* ActivityExecutor._add_workflow_dependencies(None, message): the exception
\* it raises ("" when it returns)
add_workflow_dependencies(message) ==
    IF DOMAIN message.payload = {}
    THEN ""
    ELSE LET prev == previous_step(message.routing_slip)
         IN IF prev = <<>> THEN "AttributeError"
            ELSE IF prev[1].agent_name \notin DOMAIN message.payload THEN "KeyError"
            ELSE IF "activity_registry" \notin DOMAIN message THEN "AttributeError"
            ELSE ""

\* PaigeantMessage.forward_to_next_step publishing to the topic of the step
\* that was just completed
forward_to_next_step_current(message) ==
    LET current == next_step(message.routing_slip)
    IN IF current = <<>>
       THEN [message |-> message, topic |-> <<>>]
       ELSE LET slip == mark_complete(message.routing_slip, current[1])
                next_activity == next_step(slip)
            IN [message |-> [message EXCEPT !.routing_slip = slip],
                topic |-> IF next_activity = <<>> THEN <<>>
                          ELSE <<current[1].agent_name>>]

\* PaigeantMessage.forward_to_next_step(transport): the envelope after, and
\* the topic it is published to (<<>> when nothing is published)
forward_to_next_step(message) ==
    LET current == next_step(message.routing_slip)
    IN IF current = <<>>
       THEN [message |-> message, topic |-> <<>>]
       ELSE LET slip == mark_complete(message.routing_slip, current[1])
                next_activity == next_step(slip)
            IN [message |-> [message EXCEPT !.routing_slip = slip],
                topic |-> IF next_activity = <<>> THEN <<>>
                          ELSE <<next_activity[1].agent_name>>]

\* InMemoryTransport.subscribe, one round of its loop with an item on the
\* topic: the item is popped and yielded inside "async with self._lock", so
\* the subscriber keeps the lock while the worker processes the delivery.
\* The round starts with the check of the lifespan.
subscribe(w) ==
    /\ wpc[w] = "idle"
    /\ life[w] # "elapsed"
    /\ lock = "free"
    /\ queues[w] # <<>>
    /\ lock' = w
    /\ queues' = [queues EXCEPT ![w] = Tail(queues[w])]
    /\ held' = [held EXCEPT ![w] = <<Head(queues[w])>>]
    /\ wres' = [wres EXCEPT ![w] = [NoRes EXCEPT !.pre = <<Head(queues[w])>>]]
    /\ wpc' = [wpc EXCEPT ![w] = "received"]
    /\ ev' = Ev("subscribe", w, Head(queues[w]).correlation_id, "ok", w,
                <<>>, <<Head(queues[w])>>, 0)
    /\ hist' = Delivered(hist, Head(queues[w]).message_id)
    /\ UNCHANGED <<life, backend, d_itinerary, d_registry, uuids, dispatched, dmsg, repo,
                   step_id, clock, grown>>

\* ActivityExecutor._handle_activity up to the call of agent.run:
\* extract_activity, mark_step_started, _add_workflow_dependencies
handle_activity_start(w) ==
    /\ wpc[w] = "received"
    /\ \E now \in Nows :
        LET message == held[w][1]
            activity == next_step(message.routing_slip)
            started == IF activity = <<>>
                       THEN [repo |-> repo, step_id |-> step_id,
                             raised |-> "AttributeError"]
                       ELSE mark_step_started(repo, step_id, now,
                                              message.correlation_id,
                                              activity[1].agent_name)
            raised == IF started.raised # "" THEN started.raised
                      ELSE add_workflow_dependencies(message)
        IN /\ repo' = started.repo
           /\ step_id' = started.step_id
           /\ clock' = IF started.repo # repo THEN now ELSE clock
           /\ wres' = [wres EXCEPT ![w].raised = raised]
           /\ wpc' = [wpc EXCEPT ![w] = IF raised # "" THEN "raised" ELSE "agent"]
           /\ ev' = Ev("handle_activity_start", w, message.correlation_id,
                       IF raised # "" THEN raised ELSE "ok", w, <<>>, <<>>, 0)
    /\ UNCHANGED <<life, backend, hist, d_itinerary, d_registry, uuids, dispatched, queues, lock,
                   held, dmsg, grown>>

\* message.payload[self._agent_name] = step_output
set_payload(payload, key, value) ==
    [x \in DOMAIN payload \cup {key} |-> IF x = key THEN value ELSE payload[x]]

\* ActivityExecutor._handle_activity after a successful agent.run.  The call
\* sites are message.routing_slip.insert_activities(added) and
\* message.forward_to_next_step(self._transport, self._repository); the
\* functions take (new_steps, limit) and (transport).  fwd says how the
\* forward ended: "terminal" (nothing to publish) or "publish".
handle_activity_rest(message, agent_name, added, step_output, r, now) ==
    LET insert_args == <<added>>
        forward_args == <<"transport", "repository">>
    IN IF BadCall(insert_args, 2)
       THEN [message |-> message, repo |-> r, raised |-> "TypeError", fwd |-> "-"]
       ELSE
       LET ins == insert_activities(message.routing_slip, insert_args[1],
                                    insert_args[2])
           m1 == [message EXCEPT !.routing_slip = ins.slip,
                                 !.payload = set_payload(message.payload,
                                                         agent_name, step_output)]
           r1 == update_payload(r, m1.correlation_id, m1.payload)
           done == mark_step_completed(r1, now, m1.correlation_id,
                                       Head(message.routing_slip.itinerary).agent_name,
                                       "completed", <<"result", step_output>>)
       IN IF done.raised # ""
          THEN [message |-> m1, repo |-> r1, raised |-> done.raised, fwd |-> "-"]
          ELSE IF BadCall(forward_args, 1)
          THEN [message |-> m1, repo |-> done.repo, raised |-> "TypeError",
                fwd |-> "-"]
          ELSE LET f == forward_to_next_step(m1)
               IN [message |-> f.message, repo |-> done.repo, raised |-> "",
                   fwd |-> IF f.topic = <<>> THEN "terminal" ELSE "publish"]

\* the agent raises: mark_step_completed(status="failed") and re-raise
agent_raises(w) ==
    /\ wpc[w] = "agent"
    /\ \E now \in Nows :
        LET message == held[w][1]
            activity == Head(message.routing_slip.itinerary)
            failed == mark_step_completed(repo, now, message.correlation_id,
                                          activity.agent_name, "failed",
                                          <<"error", "boom">>)
            raised == IF failed.raised # "" THEN failed.raised ELSE "AgentError"
        IN /\ repo' = failed.repo
           /\ clock' = IF failed.repo # repo THEN now ELSE clock
           /\ wres' = [wres EXCEPT ![w].agent = "failed", ![w].raised = raised]
           /\ wpc' = [wpc EXCEPT ![w] = "raised"]
           /\ ev' = Ev("agent_run", w, message.correlation_id, raised, w,
                       <<>>, <<>>, 0)
    /\ UNCHANGED <<life, backend, hist, d_itinerary, d_registry, uuids, dispatched, queues, lock,
                   held, dmsg, step_id, grown>>

\* the agent returns an output and the activities it wants to add; the rest
\* of _handle_activity, and of the iteration of start() when it returns:
\* ack is a no-op and asking subscribe for the next item releases the lock
agent_returns(w) ==
    /\ wpc[w] = "agent"
    /\ \E now \in Nows, added \in SeqsUpTo(Insertable, MaxNew), out \in Outputs :
        LET rest == handle_activity_rest(held[w][1], w, added, out, repo, now)
        IN /\ repo' = rest.repo
           /\ clock' = IF rest.repo # repo THEN now ELSE clock
           /\ held' = [held EXCEPT ![w] = <<rest.message>>]
           /\ wres' = [wres EXCEPT ![w].agent = "ok", ![w].raised = rest.raised,
                                   ![w].added = added]
           /\ wpc' = [wpc EXCEPT ![w] =
                        IF rest.raised # "" THEN "raised"
                        ELSE IF rest.fwd = "terminal" THEN "idle" ELSE "blocked"]
           /\ lock' = IF rest.raised = "" /\ rest.fwd = "terminal" THEN "free"
                      ELSE lock
           /\ ev' = Ev("agent_run", w, held[w][1].correlation_id,
                       IF rest.raised # "" THEN rest.raised ELSE "ok", w,
                       <<held[w][1]>>, <<rest.message>>, Len(added))
    /\ hist' = Ran(hist, held[w][1].message_id)
    /\ UNCHANGED <<life, backend, d_itinerary, d_registry, uuids, dispatched, queues, dmsg,
                   step_id, grown>>

\* the exception leaves start(): the delivery is not acked, and the
\* abandoned subscribe generator is closed, which releases the lock
start_raises(w) ==
    /\ wpc[w] = "raised"
    /\ wpc' = [wpc EXCEPT ![w] = "stopped"]
    /\ lock' = IF lock = w THEN "free" ELSE lock
    /\ held' = [held EXCEPT ![w] = <<>>]
    /\ wres' = [wres EXCEPT ![w] = NoRes]
    /\ ev' = Ev("start_raises", w, held[w][1].correlation_id, wres[w].raised, w,
                held[w], <<>>, 0)
    /\ UNCHANGED <<life, backend, hist, d_itinerary, d_registry, uuids, dispatched, queues, dmsg,
                   repo, step_id, clock, grown>>

\* ActivityExecutor.start is called again for the same agent
start(w) ==
    /\ wpc[w] = "stopped"
    /\ wpc' = [wpc EXCEPT ![w] = "idle"]
    /\ ev' = Ev("start", w, 0, "ok", w, <<>>, <<>>, 0)
    /\ UNCHANGED <<life, backend, hist, d_itinerary, d_registry, uuids, dispatched, queues, lock,
                   held, wres, dmsg, repo, step_id, clock, grown>>

(***************************************************************************)
(* Direct use of the public API, as the tests make it:                     *)
(* tests/integration/test_persistence_workflow.py takes raw items with     *)
(* transport._queues[topic].popleft(), tests/test_edit_itinerary.py runs   *)
(* the edit_itinerary tool on a message, tests/test_forwarding.py calls    *)
(* message.forward_to_next_step(transport).                                *)
(***************************************************************************)
driver_take(t) ==
    /\ dmsg = <<>>
    /\ queues[t] # <<>>
    /\ dmsg' = <<Head(queues[t])>>
    /\ queues' = [queues EXCEPT ![t] = Tail(queues[t])]
    /\ ev' = Ev("popleft", "driver", Head(queues[t]).correlation_id, "ok", t,
                <<>>, <<Head(queues[t])>>, 0)
    /\ UNCHANGED <<life, backend, hist, d_itinerary, d_registry, uuids, dispatched, lock, wpc, held,
                   wres, repo, step_id, clock, grown>>

\* tools/edit_itinerary.py _edit_itinerary(ctx, new_steps) with
\* ctx.deps = {"message": message, "itinerary_edit_limit": EditLimit}
edit_itinerary(new_steps) ==
    /\ dmsg # <<>>
    /\ LET message == dmsg[1]
           ins == insert_activities(message.routing_slip, new_steps, EditLimit)
           after == [message EXCEPT !.routing_slip = ins.slip]
       IN /\ dmsg' = <<after>>
          /\ grown' = [grown EXCEPT ![message.correlation_id] =
                         @ + Len(ins.slip.itinerary)
                           - Len(message.routing_slip.itinerary)]
          /\ ev' = EvR("edit_itinerary", "driver", message.correlation_id, "ok",
                       "-", <<message>>, <<after>>, Len(new_steps), ins.ret)
    /\ UNCHANGED <<life, backend, hist, d_itinerary, d_registry, uuids, dispatched, queues, lock, wpc,
                   held, wres, repo, step_id, clock>>

\* message.forward_to_next_step(transport); publish waits for the lock
driver_forward ==
    /\ dmsg # <<>>
    /\ LET f == forward_to_next_step(dmsg[1])
       IN /\ f.topic # <<>> => lock = "free"
          /\ queues' = IF f.topic = <<>> THEN queues
                        ELSE publish(queues, f.topic[1], f.message)
          /\ ev' = Ev("forward_to_next_step", "driver", f.message.correlation_id,
                      "ok", IF f.topic = <<>> THEN "-" ELSE f.topic[1],
                      dmsg, <<f.message>>, 0)
          /\ hist' = IF f.topic = <<>> THEN hist ELSE Published(hist, f.topic[1])
    /\ dmsg' = <<>>
    /\ UNCHANGED <<life, backend, d_itinerary, d_registry, uuids, dispatched, lock, wpc, held,
                   wres, repo, step_id, clock, grown>>

\* a caller records the workflow it dispatched:
\* repository.create_workflow(correlation_id, slip, payload)
client_create_workflow(c) ==
    /\ c \in 1..uuids
    /\ repo[c] = <<>>
    /\ repo' = create_workflow(repo, c, RoutingSlip(dispatched[c].itinerary),
                               dispatched[c].variables)
    /\ ev' = Ev("create_workflow", "client", c, "ok", "-", <<>>, <<>>, 0)
    /\ UNCHANGED <<life, backend, hist, d_itinerary, d_registry, uuids, dispatched, queues, lock, wpc,
                   held, wres, dmsg, step_id, clock, grown>>

Next ==
    \/ \E a \in ItineraryAgents : add_activity(a)
    \/ \E v \in VariableSets, o \in OboTokens : dispatch_workflow(v, o)
    \/ \E w \in Workers : subscribe(w)
    \/ \E w \in Workers : handle_activity_start(w)
    \/ \E w \in Workers : agent_raises(w)
    \/ \E w \in Workers : agent_returns(w)
    \/ \E w \in Workers : start_raises(w)
    \/ \E w \in Workers : start(w)
    \/ \E t \in Agents : driver_take(t)
    \/ \E ns \in SeqsUpTo(Insertable, MaxNew) : edit_itinerary(ns)
    \/ driver_forward
    \/ \E c \in Cids : client_create_workflow(c)

Spec == Init /\ [][Next]_vars

(***************************************************************************)
(* A delivery repeated, as tests/integration/test_persistence_workflow.py  *)
(* repeats it: a copy of the envelope at the head of a topic is appended   *)
(* to the deque of that topic, and the worker handles both.                *)
(***************************************************************************)
\* dup = msg.model_copy(deep=True); transport._queues[t].append((dup.to_json(), dup));
\* an envelope is delivered MaxCopies times at most
requeue_copy(t) ==
    /\ queues[t] # <<>>
    /\ Len(queues[t]) + hist.delivered[Head(queues[t]).message_id] < MaxCopies
    /\ queues' = [queues EXCEPT ![t] = Append(@, Head(@))]
    /\ ev' = Ev("requeue_copy", "driver", Head(queues[t]).correlation_id, "ok", t,
                <<>>, <<Head(queues[t])>>, 0)
    /\ UNCHANGED <<life, backend, hist, d_itinerary, d_registry, uuids, dispatched,
                   lock, wpc, held, wres, dmsg, repo, step_id, clock, grown>>

NextRedeliver ==
    \/ \E a \in ItineraryAgents : add_activity(a)
    \/ \E v \in VariableSets, o \in OboTokens : dispatch_workflow(v, o)
    \/ \E c \in Cids : client_create_workflow(c)
    \/ \E t \in Agents : requeue_copy(t)
    \/ \E w \in Workers : subscribe(w)
    \/ \E w \in Workers : handle_activity_start(w)
    \/ \E w \in Workers : agent_raises(w)
    \/ \E w \in Workers : agent_returns(w)
    \/ \E w \in Workers : start_raises(w)
    \/ \E w \in Workers : start(w)

SpecRedeliver == Init /\ [][NextRedeliver]_vars

(***************************************************************************)
(* RoutingSlip.insert_activities called directly on slips built by the     *)
(* caller, as tests/test_edit_itinerary.py calls it, with any limit.       *)
(***************************************************************************)
Limits == 0..(EditLimit + 1)

InitSlip ==
    /\ d_itinerary = <<>>
    /\ d_registry = {}
    /\ uuids = 0
    /\ dispatched = <<>>
    /\ queues = [t \in Agents |-> <<>>]
    /\ lock = "free"
    /\ wpc = [w \in Workers |-> "idle"]
    /\ held = [w \in Workers |-> <<>>]
    /\ wres = [w \in Workers |-> NoRes]
    /\ repo = [c \in Cids |-> <<>>]
    /\ step_id = 0
    /\ clock = 1
    /\ grown = [c \in Cids |-> 0]
    /\ ev = NoEv
    /\ life = [w \in Workers |-> "none"]
    /\ backend = "inmemory"
    /\ hist = NoHist
    /\ \E itin \in SeqsUpTo(Activities, MaxItinerary), n \in Limits :
          dmsg = <<PaigeantMessage(1, 1, "tok",
                                   [RoutingSlip(itin) EXCEPT !.inserted_steps = n],
                                   EmptyDict)>>

\* inserted = slip.insert_activities(new_steps, limit=limit)
insert_call(new_steps, limit) ==
    /\ dmsg # <<>>
    /\ LET ins == insert_activities(dmsg[1].routing_slip, new_steps, limit)
       IN /\ dmsg' = <<[dmsg[1] EXCEPT !.routing_slip = ins.slip]>>
          /\ ev' = EvR("insert_activities", "caller", 1, "ok", new_steps,
                       <<dmsg[1].routing_slip>>, <<ins.slip>>, limit, ins.ret)
    /\ UNCHANGED <<life, backend, hist, d_itinerary, d_registry, uuids, dispatched,
                   queues, lock, wpc, held, wres, repo, step_id, clock, grown>>

NextSlip ==
    \E ns \in SeqsUpTo(Activities, MaxNew), limit \in Limits : insert_call(ns, limit)

SpecSlip == InitSlip /\ [][NextSlip]_vars

(***************************************************************************)
(* forward_to_next_step called on an envelope over a transport whose       *)
(* publish may raise (a broker that is not connected or times out).        *)
(***************************************************************************)
\* a forward that puts the completed step back when publish raises
forward_publish_raises_undone(message) == message

\* forward_to_next_step when transport.publish raises: mark_complete has
\* run before the try block, the except block logs and re-raises
forward_publish_raises(message) ==
    [message EXCEPT !.routing_slip =
        mark_complete(message.routing_slip, Head(message.routing_slip.itinerary))]

\* message.forward_to_next_step(transport); raises says whether publish
\* raises if it is called.  The caller keeps its reference to the envelope.
forward_call(raises) ==
    /\ dmsg # <<>>
    /\ LET f == forward_to_next_step(dmsg[1])
           queued == Len(queues["A"]) + Len(queues["B"]) + Len(queues["F"])
       IN IF f.topic = <<>>
          THEN /\ dmsg' = <<f.message>>
               /\ ev' = Ev("forward_to_next_step", "caller", 1, "ok", "-",
                           dmsg, <<f.message>>, queued)
               /\ UNCHANGED <<queues, hist>>
          ELSE IF raises
          THEN /\ dmsg' = <<forward_publish_raises(dmsg[1])>>
               /\ ev' = Ev("forward_to_next_step", "caller", 1, "PublishError",
                           f.topic[1], dmsg, <<forward_publish_raises(dmsg[1])>>,
                           queued)
               /\ UNCHANGED <<queues, hist>>
          ELSE /\ queues' = publish(queues, f.topic[1], f.message)
               /\ dmsg' = <<f.message>>
               /\ hist' = Published(hist, f.topic[1])
               /\ ev' = Ev("forward_to_next_step", "caller", 1, "ok", f.topic[1],
                           dmsg, <<f.message>>, queued)
    /\ UNCHANGED <<life, backend, d_itinerary, d_registry, uuids, dispatched, lock,
                   wpc, held, wres, repo, step_id, clock, grown>>

NextForward == \E raises \in BOOLEAN : forward_call(raises)

SpecForward == InitSlip /\ [][NextForward]_vars

(***************************************************************************)
(* The transports used on their own: a publisher, and per topic a consumer *)
(* that runs "async for raw, message in subscribe(...): await ack(raw)".   *)
(* transports/inmemory.py keeps a deque per topic, transports/redis.py a   *)
(* Redis list per topic, transports/kafka.py reads a topic log in offset   *)
(* order (the read position is modelled by removing what was read).        *)
(* A lifespan is "none" (None) or "running" (positive, not yet elapsed)    *)
(* and becomes "elapsed" when the loop's clock has passed it.              *)
(***************************************************************************)
Backends == {"inmemory", "redis", "kafka"}
Lifespans == {"none", "running"}
\* the topics published to, each with one consumer
Topics == {"A", "B"}

\* BLPOP: (None when the list is empty is the guard of the caller)
blpop(q) == [item |-> Head(q), rest |-> Tail(q)]

\* self._redis.brpop(queue_name, timeout=1): the element at the tail
brpop(q) == [item |-> Last(q), rest |-> SubSeq(q, 1, Len(q) - 1)]

\* RedisTransport.publish: self._redis.lpush(queue_name, message_json)
redis_publish(q, topic, message) == [q EXCEPT ![topic] = <<message>> \o q[topic]]

\* KafkaTransport.publish: send_and_wait appends to the log of the topic
kafka_publish(q, topic, message) == [q EXCEPT ![topic] = Append(q[topic], message)]

InitTransport ==
    /\ d_itinerary = <<>>
    /\ d_registry = {}
    /\ uuids = 0
    /\ dispatched = <<>>
    /\ queues = [t \in Agents |-> <<>>]
    /\ lock = "free"
    /\ wpc = [w \in Workers |-> "stopped"]
    /\ held = [w \in Workers |-> <<>>]
    /\ wres = [w \in Workers |-> NoRes]
    /\ dmsg = <<>>
    /\ repo = [c \in Cids |-> <<>>]
    /\ step_id = 0
    /\ clock = 1
    /\ grown = [c \in Cids |-> 0]
    /\ ev = NoEv
    /\ life = [w \in Workers |-> "none"]
    /\ backend \in Backends
    /\ hist = NoHist

\* transport.publish(topic, message) of a new envelope
transport_publish(t) ==
    /\ uuids < MaxMessages
    /\ backend = "inmemory" => lock = "free"
    /\ LET message == PaigeantMessage(uuids + 1, 1, "tok",
                                      RoutingSlip(<<ActivitySpec(t)>>), EmptyDict)
       IN /\ queues' = CASE backend = "inmemory" -> publish(queues, t, message)
                          [] backend = "redis" -> redis_publish(queues, t, message)
                          [] backend = "kafka" -> kafka_publish(queues, t, message)
          /\ ev' = Ev("publish", "publisher", 1, "ok", t, <<>>, <<message>>, 0)
    /\ uuids' = uuids + 1
    /\ hist' = Published(hist, t)
    /\ UNCHANGED <<life, backend, d_itinerary, d_registry, dispatched, lock, wpc,
                   held, wres, dmsg, repo, step_id, clock, grown>>

\* ActivityExecutor.start(lifespan): it calls
\* self._transport.subscribe(self._agent_name, lifespan=lifespan); the
\* parameter of RedisTransport.subscribe and KafkaTransport.subscribe is
\* named timeout, so on these the call raises TypeError
start_lifespan(w, l) ==
    /\ wpc[w] = "stopped"
    /\ IF backend = "inmemory"
       THEN /\ wpc' = [wpc EXCEPT ![w] = "idle"]
            /\ life' = [life EXCEPT ![w] = l]
            /\ ev' = Ev("start", w, 0, "ok", w, <<>>, <<>>,
                        IF l = "none" THEN 0 ELSE 1)
       ELSE /\ UNCHANGED <<wpc, life>>
            /\ ev' = Ev("start", w, 0, "TypeError", w, <<>>, <<>>,
                        IF l = "none" THEN 0 ELSE 1)
    /\ UNCHANGED <<backend, hist, d_itinerary, d_registry, uuids, dispatched,
                   queues, lock, held, wres, dmsg, repo, step_id, clock, grown>>

\* transport.subscribe(topic, l), the second argument given by position
subscribe_call(w, l) ==
    /\ wpc[w] = "stopped"
    /\ wpc' = [wpc EXCEPT ![w] = "idle"]
    /\ life' = [life EXCEPT ![w] = l]
    /\ ev' = Ev("subscribe_call", w, 0, "ok", w, <<>>, <<>>,
                IF l = "none" THEN 0 ELSE 1)
    /\ UNCHANGED <<backend, hist, d_itinerary, d_registry, uuids, dispatched,
                   queues, lock, held, wres, dmsg, repo, step_id, clock, grown>>

\* the loop's clock passes start_time + lifespan
lifespan_elapses(w) ==
    /\ life[w] = "running"
    /\ wpc[w] # "stopped"
    /\ life' = [life EXCEPT ![w] = "elapsed"]
    /\ ev' = Ev("lifespan_elapses", w, 0, "ok", w, <<>>, <<>>, 0)
    /\ UNCHANGED <<backend, hist, d_itinerary, d_registry, uuids, dispatched,
                   queues, lock, wpc, held, wres, dmsg, repo, step_id, clock, grown>>

\* the check at the top of the loop of subscribe, the same in the three
\* transports: "if elapsed >= lifespan: break"; the generator is exhausted
\* and the "async for" of the consumer ends
subscribe_expired(w) ==
    /\ wpc[w] = "idle"
    /\ life[w] = "elapsed"
    /\ wpc' = [wpc EXCEPT ![w] = "returned"]
    /\ ev' = Ev("subscribe_expired", w, 0, "ok", w, <<>>, <<>>, 0)
    /\ UNCHANGED <<life, backend, hist, d_itinerary, d_registry, uuids, dispatched,
                   queues, lock, held, wres, dmsg, repo, step_id, clock, grown>>

\* InMemoryTransport.subscribe on the in-memory backend
inmemory_subscribe(w) == backend = "inmemory" /\ subscribe(w)

\* RedisTransport.subscribe, one round of its loop that gets an item: brpop
\* returns None after one second on an empty list and the round starts over
redis_subscribe(w) ==
    /\ backend = "redis"
    /\ wpc[w] = "idle"
    /\ life[w] # "elapsed"
    /\ queues[w] # <<>>
    /\ LET result == brpop(queues[w])
       IN /\ queues' = [queues EXCEPT ![w] = result.rest]
          /\ held' = [held EXCEPT ![w] = <<result.item>>]
          /\ wres' = [wres EXCEPT ![w] = [NoRes EXCEPT !.pre = <<result.item>>]]
          /\ ev' = Ev("subscribe", w, result.item.correlation_id, "ok", w,
                      <<>>, <<result.item>>, 0)
          /\ hist' = Delivered(hist, result.item.message_id)
    /\ wpc' = [wpc EXCEPT ![w] = "received"]
    /\ UNCHANGED <<life, backend, d_itinerary, d_registry, uuids, dispatched,
                   lock, dmsg, repo, step_id, clock, grown>>

\* KafkaTransport.subscribe: past the check of the lifespan the loop waits
\* in "await self._consumer.getone()", which has no timeout
kafka_getone(w) ==
    /\ backend = "kafka"
    /\ wpc[w] = "idle"
    /\ life[w] # "elapsed"
    /\ wpc' = [wpc EXCEPT ![w] = "getone"]
    /\ ev' = Ev("getone", w, 0, "ok", w, <<>>, <<>>, 0)
    /\ UNCHANGED <<life, backend, hist, d_itinerary, d_registry, uuids, dispatched,
                   queues, lock, held, wres, dmsg, repo, step_id, clock, grown>>

\* getone returns the next record of the topic, which subscribe yields
kafka_subscribe(w) ==
    /\ backend = "kafka"
    /\ wpc[w] = "getone"
    /\ queues[w] # <<>>
    /\ queues' = [queues EXCEPT ![w] = Tail(queues[w])]
    /\ held' = [held EXCEPT ![w] = <<Head(queues[w])>>]
    /\ wres' = [wres EXCEPT ![w] = [NoRes EXCEPT !.pre = <<Head(queues[w])>>]]
    /\ wpc' = [wpc EXCEPT ![w] = "received"]
    /\ ev' = Ev("subscribe", w, Head(queues[w]).correlation_id, "ok", w,
                <<>>, <<Head(queues[w])>>, 0)
    /\ hist' = Delivered(hist, Head(queues[w]).message_id)
    /\ UNCHANGED <<life, backend, d_itinerary, d_registry, uuids, dispatched,
                   lock, dmsg, repo, step_id, clock, grown>>

\* the consumer is done with the item: await transport.ack(raw), and the
\* "async for" resumes subscribe, which leaves "async with self._lock"
consumer_ack(w) ==
    /\ wpc[w] = "received"
    /\ wpc' = [wpc EXCEPT ![w] = "idle"]
    /\ lock' = IF lock = w THEN "free" ELSE lock
    /\ held' = [held EXCEPT ![w] = <<>>]
    /\ ev' = Ev("ack", w, held[w][1].correlation_id, "ok", w, held[w], <<>>, 0)
    /\ UNCHANGED <<life, backend, hist, d_itinerary, d_registry, uuids, dispatched,
                   queues, wres, dmsg, repo, step_id, clock, grown>>

NextTransport ==
    \/ \E t \in Topics : transport_publish(t)
    \/ \E w \in Topics, l \in Lifespans : start_lifespan(w, l)
    \/ \E w \in Topics, l \in Lifespans : subscribe_call(w, l)
    \/ \E w \in Topics : lifespan_elapses(w)
    \/ \E w \in Topics : subscribe_expired(w)
    \/ \E w \in Topics : inmemory_subscribe(w)
    \/ \E w \in Topics : redis_subscribe(w)
    \/ \E w \in Topics : kafka_getone(w)
    \/ \E w \in Topics : kafka_subscribe(w)
    \/ \E w \in Topics : consumer_ack(w)

SpecTransport == InitTransport /\ [][NextTransport]_vars

\* the event loop runs every consumer that can take a step, and time passes
FairSpecTransport ==
    /\ SpecTransport
    /\ \A w \in Workers :
          /\ WF_vars(lifespan_elapses(w))
          /\ WF_vars(subscribe_expired(w))
          /\ WF_vars(inmemory_subscribe(w))
          /\ WF_vars(redis_subscribe(w))
          /\ WF_vars(kafka_getone(w))
          /\ WF_vars(kafka_subscribe(w))
          /\ WF_vars(consumer_ack(w))

(***************************************************************************)
(* The worker loop started with a lifespan on the in-memory transport:     *)
(* executor.start(lifespan=...).                                           *)
(***************************************************************************)
InitLife ==
    /\ d_itinerary = <<>>
    /\ d_registry = {}
    /\ uuids = 0
    /\ dispatched = <<>>
    /\ queues = [t \in Agents |-> <<>>]
    /\ lock = "free"
    /\ wpc = [w \in Workers |-> "idle"]
    /\ held = [w \in Workers |-> <<>>]
    /\ wres = [w \in Workers |-> NoRes]
    /\ dmsg = <<>>
    /\ repo = [c \in Cids |-> <<>>]
    /\ step_id = 0
    /\ clock = 1
    /\ grown = [c \in Cids |-> 0]
    /\ ev = NoEv
    /\ life \in [Workers -> Lifespans]
    /\ backend = "inmemory"
    /\ hist = NoHist

NextLife ==
    \/ \E a \in ItineraryAgents : add_activity(a)
    \/ \E v \in VariableSets, o \in OboTokens : dispatch_workflow(v, o)
    \/ \E c \in Cids : client_create_workflow(c)
    \/ \E w \in Workers : subscribe(w)
    \/ \E w \in Workers : handle_activity_start(w)
    \/ \E w \in Workers : agent_raises(w)
    \/ \E w \in Workers : agent_returns(w)
    \/ \E w \in Workers : start_raises(w)
    \/ \E w \in Workers, l \in Lifespans : start_lifespan(w, l)
    \/ \E w \in Workers : lifespan_elapses(w)
    \/ \E w \in Workers : subscribe_expired(w)

SpecLife == InitLife /\ [][NextLife]_vars

(***************************************************************************)
(* The wire format: PaigeantMessage.to_json / from_json.  A python value   *)
(* of the payload is [type, items]; a JSON value is [json, items].         *)
(***************************************************************************)
PyStr == [type |-> "str", items |-> <<"v">>]
PyList == [type |-> "list", items |-> <<"v">>]
PyTuple == [type |-> "tuple", items |-> <<"v">>]

\* what model_dump_json writes for a value typed Any: a str as a JSON
\* string, a list and a tuple alike as a JSON array
json_value(v) ==
    IF v.type = "str"
    THEN [json |-> "string", items |-> v.items]
    ELSE [json |-> "array", items |-> v.items]

\* a parser that returns a JSON array as a tuple
python_value_tuple(j) ==
    IF j.json = "string"
    THEN [type |-> "str", items |-> j.items]
    ELSE [type |-> "tuple", items |-> j.items]

\* what the JSON parser returns: a JSON string as a str, an array as a list
python_value(j) ==
    IF j.json = "string"
    THEN [type |-> "str", items |-> j.items]
    ELSE [type |-> "list", items |-> j.items]

\* a text on the wire: its kind and the document it holds when it is JSON
RawText(text, doc) == [text |-> text, doc |-> doc]

\* PaigeantMessage.to_json: self.model_dump_json()
to_json(message) ==
    RawText("json",
            <<[message_id |-> message.message_id,
               correlation_id |-> message.correlation_id,
               trace_id |-> message.trace_id,
               obo_token |-> message.obo_token,
               routing_slip |-> message.routing_slip,
               payload |-> [k \in DOMAIN message.payload |->
                               json_value(message.payload[k])]]>>)

\* json.loads: JSONDecodeError on a text that is not JSON
json_loads(raw) ==
    IF raw.text = "json"
    THEN [raised |-> "", data |-> raw.doc]
    ELSE [raised |-> "JSONDecodeError", data |-> <<>>]

\* PaigeantMessage.model_validate: correlation_id and routing_slip have no
\* default, a document without them raises ValidationError (a ValueError)
model_validate(data) ==
    IF {"correlation_id", "routing_slip"} \subseteq DOMAIN data
    THEN [raised |-> "",
          message |-> <<[message_id |-> data.message_id,
                         correlation_id |-> data.correlation_id,
                         trace_id |-> data.trace_id,
                         obo_token |-> data.obo_token,
                         routing_slip |-> data.routing_slip,
                         payload |-> [k \in DOMAIN data.payload |->
                                         python_value(data.payload[k])]]>>]
    ELSE [raised |-> "ValidationError", message |-> <<>>]

\* PaigeantMessage.from_json: cls.model_validate_json(data)
from_json(raw) ==
    LET loaded == json_loads(raw)
    IN IF loaded.raised # ""
       THEN [raised |-> "ValidationError", message |-> <<>>]
       ELSE model_validate(loaded.data[1])

(***************************************************************************)
(* The subscriptions of the broker transports over texts on the wire, and  *)
(* a producer that puts texts on a topic that are no envelope.             *)
(***************************************************************************)
WireBackends == {"redis", "kafka", "rabbitmq"}
\* non-JSON bytes, and a JSON document that is no envelope
Malformed == {RawText("bytes", <<>>), RawText("json", <<[spec_version |-> "0"]>>)}
\* KafkaTransport.dlq_topic, a topic no worker of this specification consumes
dlq_topic == "F"

\* the number of texts of a queue that are no envelope
RECURSIVE BadCount(_)
BadCount(q) ==
    IF q = <<>> THEN 0
    ELSE (IF Head(q) \in Malformed THEN 1 ELSE 0) + BadCount(Tail(q))

\* publish of the three transports: lpush at the head of the redis list,
\* send_and_wait and default_exchange.publish at the tail
wire_push(q, topic, raw) ==
    IF backend = "redis"
    THEN [q EXCEPT ![topic] = <<raw>> \o q[topic]]
    ELSE [q EXCEPT ![topic] = Append(q[topic], raw)]

\* the item a round of subscribe takes: brpop, getone, queue.get
wire_pop(q) == IF backend = "redis" THEN brpop(q) ELSE [item |-> Head(q), rest |-> Tail(q)]

\* the envelope the subscription yields next: the first text in the order of
\* the pops that is an envelope (its message_id, 0 when there is none)
RECURSIVE FirstValid(_)
FirstValid(q) ==
    IF q = <<>> THEN 0
    ELSE LET result == wire_pop(q)
         IN IF result.item \in Malformed
            THEN FirstValid(result.rest)
            ELSE result.item.doc[1].message_id

\* KafkaTransport.nack with requeue=True: seek back to the offset of the
\* record, which stays the next one of the topic
kafka_nack_requeue(q, topic, raw) == q

\* KafkaTransport.nack(msg, requeue=False): the record goes to dlq_topic and
\* its offset is committed
kafka_nack(q, topic, raw) ==
    [q EXCEPT ![topic] = Tail(q[topic]),
              ![dlq_topic] = Append(q[dlq_topic], raw)]

InitWire ==
    /\ d_itinerary = <<>>
    /\ d_registry = {}
    /\ uuids = 0
    /\ dispatched = <<>>
    /\ queues = [t \in Agents |-> <<>>]
    /\ lock = "free"
    /\ wpc = [w \in Workers |-> "idle"]
    /\ held = [w \in Workers |-> <<>>]
    /\ wres = [w \in Workers |-> NoRes]
    /\ dmsg = <<>>
    /\ repo = create_workflow([c \in Cids |-> <<>>], 1, RoutingSlip(<<>>), EmptyDict)
    /\ step_id = 0
    /\ clock = 1
    /\ grown = [c \in Cids |-> 0]
    /\ ev = NoEv
    /\ life = [w \in Workers |-> "none"]
    /\ backend \in WireBackends
    /\ hist = NoHist

\* transport.publish(topic, message): message.to_json() goes on the topic
wire_publish(t) ==
    /\ uuids < MaxMessages
    /\ LET message == PaigeantMessage(uuids + 1, 1, "tok",
                                      RoutingSlip(<<ActivitySpec(t)>>), EmptyDict)
       IN /\ queues' = wire_push(queues, t, to_json(message))
          /\ ev' = Ev("publish", "publisher", 1, "ok", t, <<>>, <<message>>, 0)
    /\ uuids' = uuids + 1
    /\ hist' = Published(hist, t)
    /\ UNCHANGED <<life, backend, d_itinerary, d_registry, dispatched, lock, wpc,
                   held, wres, dmsg, repo, step_id, clock, grown>>

\* another producer puts a text on the topic that is no envelope
inject(t, raw) ==
    /\ BadCount(queues["A"]) + BadCount(queues["B"]) + BadCount(queues[dlq_topic])
          < MaxBad
    /\ queues' = wire_push(queues, t, raw)
    /\ ev' = Ev("inject", "producer", 0, "ok", t, <<>>, <<raw>>, 0)
    /\ UNCHANGED <<life, backend, hist, d_itinerary, d_registry, uuids, dispatched,
                   lock, wpc, held, wres, dmsg, repo, step_id, clock, grown>>

\* one round of the loop of subscribe that gets an item.
\* redis: brpop, json.loads and model_validate inside
\*   "except (json.JSONDecodeError, ValueError): print; continue";
\* kafka: getone, from_json inside "except Exception: nack(msg,
\*   requeue=False); continue";
\* rabbitmq: queue.get, from_json inside "except Exception:
\*   msg.reject(requeue=False); continue".
\* A decoded envelope is yielded with the raw item.
subscribe_round(w) ==
    /\ backend \in WireBackends
    /\ wpc[w] = "idle"
    /\ queues[w] # <<>>
    /\ LET result == wire_pop(queues[w])
           parsed == from_json(result.item)
       IN IF parsed.raised # ""
          THEN /\ queues' = IF backend = "kafka"
                            THEN kafka_nack(queues, w, result.item)
                            ELSE [queues EXCEPT ![w] = result.rest]
               /\ ev' = Ev("subscribe", w, 0, parsed.raised, w,
                           <<result.item>>, <<>>, 0)
               /\ UNCHANGED <<held, wres, wpc, hist>>
          ELSE /\ queues' = [queues EXCEPT ![w] = result.rest]
               /\ held' = [held EXCEPT ![w] = parsed.message]
               /\ wres' = [wres EXCEPT ![w] = [NoRes EXCEPT !.pre = parsed.message]]
               /\ wpc' = [wpc EXCEPT ![w] = "received"]
               /\ ev' = Ev("subscribe", w, parsed.message[1].correlation_id,
                           "ok", w, <<result.item>>, parsed.message, 0)
               /\ hist' = Delivered(hist, parsed.message[1].message_id)
    /\ UNCHANGED <<life, backend, d_itinerary, d_registry, uuids, dispatched,
                   lock, dmsg, repo, step_id, clock, grown>>

\* the consumer of the subscription, the body of the loop of
\* ActivityExecutor.start up to its first write: extract_activity,
\* repository.mark_step_started(correlation_id, agent_name); then
\* transport.ack(raw_message) and the loop asks for the next item
consume(w) ==
    /\ wpc[w] = "received"
    /\ held[w] # <<>>
    /\ LET message == held[w][1]
           activity == next_step(message.routing_slip)[1]
           started == mark_step_started(repo, step_id, clock,
                                        message.correlation_id, activity.agent_name)
       IN /\ repo' = started.repo
          /\ step_id' = started.step_id
          /\ ev' = Ev("consume", w, message.correlation_id,
                      IF started.raised = "" THEN "ok" ELSE started.raised,
                      w, held[w], <<>>, 0)
          \* an exception of the body leaves the loop and start
          /\ wpc' = [wpc EXCEPT ![w] = IF started.raised = "" THEN "idle"
                                                               ELSE "stopped"]
    /\ held' = [held EXCEPT ![w] = <<>>]
    /\ UNCHANGED <<life, backend, hist, d_itinerary, d_registry, uuids, dispatched,
                   queues, lock, wres, dmsg, clock, grown>>

NextWire ==
    \/ \E t \in Topics : wire_publish(t)
    \/ \E t \in Topics, raw \in Malformed : inject(t, raw)
    \/ \E w \in Topics : subscribe_round(w)
    \/ \E w \in Topics : consume(w)

SpecWire == InitWire /\ [][NextWire]_vars

\* the event loop resumes every subscription and consumer that can step
FairSpecWire ==
    /\ SpecWire
    /\ \A w \in Topics : WF_vars(subscribe_round(w)) /\ WF_vars(consume(w))

(***************************************************************************)
(* Envelopes published on a topic by hand, the head of the itinerary being *)
(* the agent of the topic or another one, and the workers of the topics.   *)
(***************************************************************************)
InitRouted ==
    /\ d_itinerary = <<>>
    /\ d_registry = {}
    /\ uuids = 0
    /\ dispatched = <<>>
    /\ queues = [t \in Agents |-> <<>>]
    /\ lock = "free"
    /\ wpc = [w \in Workers |-> "idle"]
    /\ held = [w \in Workers |-> <<>>]
    /\ wres = [w \in Workers |-> NoRes]
    /\ dmsg = <<>>
    /\ repo = create_workflow([c \in Cids |-> <<>>], 1, RoutingSlip(<<>>), EmptyDict)
    /\ step_id = 0
    /\ clock = 1
    /\ grown = [c \in Cids |-> 0]
    /\ ev = NoEv
    /\ life = [w \in Workers |-> "none"]
    /\ backend = "inmemory"
    /\ hist = NoHist

\* transport.publish(t, message) of an envelope whose itinerary is [a]
publish_to(t, a) ==
    /\ uuids < MaxMessages
    /\ lock = "free"
    /\ LET message == PaigeantMessage(uuids + 1, 1, "tok",
                                      RoutingSlip(<<ActivitySpec(a)>>), EmptyDict)
       IN /\ queues' = publish(queues, t, message)
          /\ ev' = Ev("publish", "publisher", 1, "ok", t, <<>>, <<message>>, 0)
    /\ uuids' = uuids + 1
    /\ hist' = Published(hist, t)
    /\ UNCHANGED <<life, backend, d_itinerary, d_registry, dispatched, lock, wpc,
                   held, wres, dmsg, repo, step_id, clock, grown>>

NextRouted ==
    \/ \E t \in Topics, a \in ItineraryAgents : publish_to(t, a)
    \/ \E w \in Topics : subscribe(w)
    \/ \E w \in Topics : handle_activity_start(w)
    \/ \E w \in Topics : agent_raises(w)
    \/ \E w \in Topics : agent_returns(w)
    \/ \E w \in Topics : start_raises(w)
    \/ \E w \in Topics : start(w)

SpecRouted == InitRouted /\ [][NextRouted]_vars

(***************************************************************************)
(* RoutingSlip.mark_complete called on a slip, once and again.             *)
(***************************************************************************)
\* slip.mark_complete(step)
mark_complete_call(step) ==
    /\ dmsg # <<>>
    /\ LET slip == mark_complete(dmsg[1].routing_slip, step)
       IN /\ dmsg' = <<[dmsg[1] EXCEPT !.routing_slip = slip]>>
          /\ ev' = Ev("mark_complete", "caller", 1, "ok", <<step>>,
                      <<dmsg[1].routing_slip>>, <<slip>>, 0)
    /\ UNCHANGED <<life, backend, hist, d_itinerary, d_registry, uuids, dispatched,
                   queues, lock, wpc, held, wres, repo, step_id, clock, grown>>

NextComplete == \E step \in Activities : mark_complete_call(step)

SpecComplete == InitSlip /\ [][NextComplete]_vars

(***************************************************************************)
(* agent/wrapper.py: the output function _edit_itinerary that               *)
(* create_edit_itinerary_tool returns.  In this specification d_registry   *)
(* is what ctx.deps.activity_registry is: <<>> when the deps object has no *)
(* such attribute, <<registry>> otherwise, the registry being the dict of  *)
(* the dispatcher (agent_name -> ActivitySpec), whose entries are shared.  *)
(***************************************************************************)
FollowUpNames == {"B", "F"}
\* a prompt of follow_up_agents: None, or a text
FollowUpPrompts == {"None", "q"}
PyNone == [none |-> TRUE]

\* follow_up_agents: a dict, the items in the order of insertion
FollowUps ==
    {fu \in SeqsUpTo([agent_name : FollowUpNames, prompt : FollowUpPrompts], MaxNew) :
        \A i, j \in 1..Len(fu) : fu[i].agent_name = fu[j].agent_name => i = j}

\* registered.prompt = prompt: registered is the entry of the registry
set_prompt(registry, agent_name, prompt) ==
    [registry EXCEPT ![agent_name].prompt = prompt]

\* the loop "for agent_name, prompt in follow_up_agents.items()"
RECURSIVE edit_loop(_, _, _)
edit_loop(registry, follow_up_agents, steps) ==
    IF follow_up_agents = <<>>
    THEN [registry |-> registry, steps |-> steps, raised |-> ""]
    ELSE LET agent_name == Head(follow_up_agents).agent_name
             prompt == Head(follow_up_agents).prompt
             known == agent_name \in DOMAIN registry
         IN IF prompt # "None" /\ ~known
            THEN \* None.prompt = prompt
                 [registry |-> registry, steps |-> steps, raised |-> "AttributeError"]
            ELSE LET after == IF prompt # "None"
                              THEN set_prompt(registry, agent_name, prompt)
                              ELSE registry
                     registered == IF known
                                   THEN [registry[agent_name] EXCEPT !.prompt =
                                            IF prompt # "None" THEN prompt ELSE @]
                                   ELSE PyNone
                 IN edit_loop(after, Tail(follow_up_agents), Append(steps, registered))

InitEdit ==
    /\ d_itinerary = <<>>
    /\ \E n \in 0..1, S \in SUBSET FollowUpNames :
          d_registry = IF n = 0 THEN <<>> ELSE <<[a \in S |-> ActivitySpec(a)]>>
    /\ uuids = 0
    /\ dispatched = <<>>
    /\ queues = [t \in Agents |-> <<>>]
    /\ lock = "free"
    /\ wpc = [w \in Workers |-> "idle"]
    /\ held = [w \in Workers |-> <<>>]
    /\ wres = [w \in Workers |-> NoRes]
    /\ dmsg = <<>>
    /\ repo = [c \in Cids |-> <<>>]
    /\ step_id = 0
    /\ clock = 1
    /\ grown = [c \in Cids |-> 0]
    /\ ev = NoEv
    /\ life = [w \in Workers |-> "none"]
    /\ backend = "inmemory"
    /\ hist = NoHist

\* _edit_itinerary(ctx, run_output, follow_up_agents): ev.post is the list
\* added_activities of the output it returns
wrapper_edit_itinerary(follow_up_agents) ==
    /\ LET res == IF follow_up_agents = <<>>
                  THEN [registry |-> d_registry, steps |-> <<>>, raised |-> ""]
                  ELSE IF d_registry = <<>>
                  THEN [registry |-> d_registry, steps |-> <<>>,
                        raised |-> "AttributeError"]
                  ELSE LET looped == edit_loop(d_registry[1], follow_up_agents, <<>>)
                       IN [registry |-> <<looped.registry>>,
                           steps |-> IF looped.raised = "" THEN looped.steps ELSE <<>>,
                           raised |-> looped.raised]
       IN /\ d_registry' = res.registry
          /\ ev' = Ev("_edit_itinerary", "agent", 0,
                      IF res.raised = "" THEN "ok" ELSE res.raised,
                      follow_up_agents, d_registry, res.steps, Len(follow_up_agents))
    /\ UNCHANGED <<life, backend, hist, d_itinerary, uuids, dispatched, queues, lock,
                   wpc, held, wres, dmsg, repo, step_id, clock, grown>>

NextEdit == \E fu \in FollowUps : wrapper_edit_itinerary(fu)

SpecEdit == InitEdit /\ [][NextEdit]_vars

(***************************************************************************)
(* PaigeantMessage.from_json(message.to_json()) on envelopes of every      *)
(* shape: payload is Dict[str, Any], its values are str, list or tuple.    *)
(***************************************************************************)
PyValues == {PyStr, PyList, PyTuple}
PayloadKeys == {"A", "B"}
PyPayloads == UNION {[K -> PyValues] : K \in SUBSET PayloadKeys}
OptionalStrs == {"None", "s"}

InitJson ==
    /\ d_itinerary = <<>>
    /\ d_registry = {}
    /\ uuids = 0
    /\ dispatched = <<>>
    /\ queues = [t \in Agents |-> <<>>]
    /\ lock = "free"
    /\ wpc = [w \in Workers |-> "idle"]
    /\ held = [w \in Workers |-> <<>>]
    /\ wres = [w \in Workers |-> NoRes]
    /\ repo = [c \in Cids |-> <<>>]
    /\ step_id = 0
    /\ clock = 1
    /\ grown = [c \in Cids |-> 0]
    /\ ev = NoEv
    /\ life = [w \in Workers |-> "none"]
    /\ backend = "inmemory"
    /\ hist = NoHist
    /\ \E itin \in SeqsUpTo(Insertable, MaxItinerary),
          done \in SeqsUpTo(Insertable, 1), n \in Limits,
          payload \in PyPayloads, trace \in OptionalStrs, obo \in OptionalStrs :
          dmsg = <<[PaigeantMessage(1, 1, obo,
                                    [itinerary |-> itin, executed |-> done,
                                     inserted_steps |-> n],
                                    payload) EXCEPT !.trace_id = trace]>>

\* restored = PaigeantMessage.from_json(message.to_json())
json_roundtrip ==
    /\ dmsg # <<>>
    /\ LET restored == from_json(to_json(dmsg[1]))
       IN /\ dmsg' = IF restored.raised = "" THEN restored.message ELSE dmsg
          /\ ev' = Ev("from_json", "caller", 1,
                      IF restored.raised = "" THEN "ok" ELSE restored.raised,
                      "-", dmsg, restored.message, 0)
    /\ UNCHANGED <<life, backend, hist, d_itinerary, d_registry, uuids, dispatched,
                   queues, lock, wpc, held, wres, repo, step_id, clock, grown>>

NextJson == json_roundtrip

SpecJson == InitJson /\ [][NextJson]_vars

(***************************************************************************)
(* Several subscribers on one topic of one transport: every subscriber of  *)
(* Workers runs subscribe(CompeteTopic) on the same InMemoryTransport or   *)
(* the same redis list.  On redis the list holds the texts of to_json.     *)
(***************************************************************************)
CompeteTopic == "A"

\* a read of the left end that leaves the item on the deque
popleft_peek(q) == [item |-> Head(q), rest |-> q]

\* self._queues[topic].popleft()
popleft(q) == [item |-> Head(q), rest |-> Tail(q)]

InitCompete ==
    /\ d_itinerary = <<>>
    /\ d_registry = {}
    /\ uuids = 0
    /\ dispatched = <<>>
    /\ queues = [t \in Agents |-> <<>>]
    /\ lock = "free"
    /\ wpc = [w \in Workers |-> "idle"]
    /\ held = [w \in Workers |-> <<>>]
    /\ wres = [w \in Workers |-> NoRes]
    /\ dmsg = <<>>
    /\ repo = [c \in Cids |-> <<>>]
    /\ step_id = 0
    /\ clock = 1
    /\ grown = [c \in Cids |-> 0]
    /\ ev = NoEv
    /\ life = [w \in Workers |-> "none"]
    /\ backend \in {"inmemory", "redis"}
    /\ hist = NoHist

\* transport.publish(CompeteTopic, message) of a new envelope
compete_publish ==
    /\ uuids < MaxMessages
    /\ backend = "inmemory" => lock = "free"
    /\ LET message == PaigeantMessage(uuids + 1, 1, "tok",
                                      RoutingSlip(<<ActivitySpec(CompeteTopic)>>),
                                      EmptyDict)
       IN /\ queues' = IF backend = "inmemory"
                        THEN publish(queues, CompeteTopic, message)
                        ELSE redis_publish(queues, CompeteTopic, to_json(message))
          /\ ev' = Ev("publish", "publisher", 1, "ok", CompeteTopic, <<>>,
                      <<message>>, 0)
    /\ uuids' = uuids + 1
    /\ hist' = Published(hist, CompeteTopic)
    /\ UNCHANGED <<life, backend, d_itinerary, d_registry, dispatched, lock, wpc,
                   held, wres, dmsg, repo, step_id, clock, grown>>

\* InMemoryTransport.subscribe of subscriber w, a round that finds an item:
\* popleft and yield inside "async with self._lock"
compete_inmemory(w) ==
    /\ backend = "inmemory"
    /\ wpc[w] = "idle"
    /\ lock = "free"
    /\ queues[CompeteTopic] # <<>>
    /\ LET raw_message == popleft(queues[CompeteTopic])
       IN /\ queues' = [queues EXCEPT ![CompeteTopic] = raw_message.rest]
          /\ held' = [held EXCEPT ![w] = <<raw_message.item>>]
          /\ ev' = Ev("subscribe", w, raw_message.item.correlation_id, "ok",
                      CompeteTopic, <<>>, <<raw_message.item>>, 0)
          /\ hist' = Delivered(hist, raw_message.item.message_id)
    /\ lock' = w
    /\ wpc' = [wpc EXCEPT ![w] = "received"]
    /\ UNCHANGED <<life, backend, d_itinerary, d_registry, uuids, dispatched, wres,
                   dmsg, repo, step_id, clock, grown>>

\* RedisTransport.subscribe of subscriber w, a round whose brpop returns an
\* item: json.loads, model_validate, yield; a text that does not parse is
\* printed and skipped
compete_redis(w) ==
    /\ backend = "redis"
    /\ wpc[w] = "idle"
    /\ queues[CompeteTopic] # <<>>
    /\ LET result == brpop(queues[CompeteTopic])
           parsed == from_json(result.item)
       IN /\ queues' = [queues EXCEPT ![CompeteTopic] = result.rest]
          /\ IF parsed.raised # ""
             THEN /\ ev' = Ev("subscribe", w, 0, parsed.raised, CompeteTopic,
                              <<result.item>>, <<>>, 0)
                  /\ UNCHANGED <<held, wpc, hist>>
             ELSE /\ held' = [held EXCEPT ![w] = parsed.message]
                  /\ wpc' = [wpc EXCEPT ![w] = "received"]
                  /\ ev' = Ev("subscribe", w, parsed.message[1].correlation_id,
                              "ok", CompeteTopic, <<result.item>>,
                              parsed.message, 0)
                  /\ hist' = Delivered(hist, parsed.message[1].message_id)
    /\ UNCHANGED <<life, backend, d_itinerary, d_registry, uuids, dispatched, lock,
                   wres, dmsg, repo, step_id, clock, grown>>

\* the consumer of subscriber w is done with the item: transport.ack (a
\* no-op on both transports) and the next round of subscribe, which on the
\* in-memory transport leaves "async with self._lock"
compete_ack(w) ==
    /\ wpc[w] = "received"
    /\ wpc' = [wpc EXCEPT ![w] = "idle"]
    /\ lock' = IF lock = w THEN "free" ELSE lock
    /\ held' = [held EXCEPT ![w] = <<>>]
    /\ ev' = Ev("ack", w, held[w][1].correlation_id, "ok", CompeteTopic, held[w],
                <<>>, 0)
    /\ UNCHANGED <<life, backend, hist, d_itinerary, d_registry, uuids, dispatched,
                   queues, wres, dmsg, repo, step_id, clock, grown>>

NextCompete ==
    \/ compete_publish
    \/ \E w \in Workers : compete_inmemory(w)
    \/ \E w \in Workers : compete_redis(w)
    \/ \E w \in Workers : compete_ack(w)

SpecCompete == InitCompete /\ [][NextCompete]_vars

TypeOK ==
    /\ uuids \in 0..Max(MaxWorkflows, MaxMessages)
    /\ lock \in {"free"} \cup Workers
    /\ \A w \in Workers : wpc[w] \in {"idle", "received", "agent", "raised",
                                         "stopped", "blocked", "getone",
                                         "returned"}
    /\ \A w \in Workers : life[w] \in {"none", "running", "elapsed"}
    /\ Len(dmsg) <= 1

(***************************************************************************)
(* The worker loops run under the asyncio scheduler: a step that stays     *)
(* possible is eventually taken, and a stopped worker is started again.    *)
(***************************************************************************)
FairSpec ==
    /\ Spec
    /\ \A w \in Workers :
          /\ WF_vars(subscribe(w))
          /\ WF_vars(handle_activity_start(w))
          /\ WF_vars(agent_raises(w) \/ agent_returns(w))
          /\ WF_vars(start_raises(w))
          /\ WF_vars(start(w))

(***************************************************************************)
(* The repository used on its own, as tests/unit/test_persistence_         *)
(* repository.py uses it.                                                  *)
(***************************************************************************)
StepStatuses == {"completed", "failed"}
Payloads == {EmptyDict, [A |-> "ok"]}

Row(c) == repo[c]

repo_create_workflow(c) ==
    /\ repo[c] = <<>>
    /\ repo' = create_workflow(repo, c, RoutingSlip(<<ActivitySpec("A")>>), EmptyDict)
    /\ ev' = Ev("create_workflow", "client", c, "ok", "-", Row(c), Row(c)', 0)
    /\ UNCHANGED <<life, backend, hist, d_itinerary, d_registry, uuids, dispatched, queues, lock, wpc,
                   held, wres, dmsg, step_id, clock, grown>>

repo_mark_step_started(c, step_name) ==
    /\ \E now \in Nows :
         LET started == mark_step_started(repo, step_id, now, c, step_name)
         IN /\ repo' = started.repo
            /\ step_id' = started.step_id
            /\ clock' = IF started.repo # repo THEN now ELSE clock
            /\ ev' = Ev("mark_step_started", "client", c,
                        IF started.raised # "" THEN started.raised ELSE "ok",
                        step_name, Row(c), Row(c)', 0)
    /\ UNCHANGED <<life, backend, hist, d_itinerary, d_registry, uuids, dispatched, queues, lock, wpc,
                   held, wres, dmsg, grown>>

repo_mark_step_completed(c, step_name, status) ==
    /\ \E now \in Nows :
         LET done == mark_step_completed(repo, now, c, step_name, status, <<>>)
         IN /\ repo' = done.repo
            /\ clock' = IF done.repo # repo THEN now ELSE clock
            /\ ev' = EvR("mark_step_completed", "client", c,
                         IF done.raised # "" THEN done.raised ELSE "ok",
                         step_name, Row(c), Row(c)', 0, status)
    /\ UNCHANGED <<life, backend, hist, d_itinerary, d_registry, uuids, dispatched, queues, lock, wpc,
                   held, wres, dmsg, step_id, grown>>

repo_update_payload(c, payload) ==
    /\ repo' = update_payload(repo, c, payload)
    /\ ev' = Ev("update_payload", "client", c, "ok", "-", Row(c), Row(c)', 0)
    /\ UNCHANGED <<life, backend, hist, d_itinerary, d_registry, uuids, dispatched, queues, lock, wpc,
                   held, wres, dmsg, step_id, clock, grown>>

repo_mark_workflow_completed(c, status) ==
    /\ repo' = mark_workflow_completed(repo, c, status)
    /\ ev' = EvR("mark_workflow_completed", "client", c, "ok", "-", Row(c),
                 Row(c)', 0, status)
    /\ UNCHANGED <<life, backend, hist, d_itinerary, d_registry, uuids, dispatched, queues, lock, wpc,
                   held, wres, dmsg, step_id, clock, grown>>

NextRepo ==
    \/ \E c \in Cids : repo_create_workflow(c)
    \/ \E c \in Cids, a \in Agents : repo_mark_step_started(c, a)
    \/ \E c \in Cids, a \in Agents, st \in StepStatuses :
          repo_mark_step_completed(c, a, st)
    \/ \E c \in Cids, pl \in Payloads : repo_update_payload(c, pl)
    \/ \E c \in Cids, st \in StepStatuses : repo_mark_workflow_completed(c, st)

SpecRepo == Init /\ [][NextRepo]_vars

(***************************************************************************)
(* persistence/sqlite.py used on its own, as tests/unit/test_persistence_  *)
(* repository.py uses it: the workflow is created first, then its steps    *)
(* are marked.  repo[c] is what get_workflow(c) returns: the row of table  *)
(* workflows with the rows of table step_history for c, ordered by id.     *)
(***************************************************************************)
\* SQLiteWorkflowRepository.mark_step_started: a plain INSERT
sqlite_mark_step_started(r, sid, now, cid, step_name) ==
    [r EXCEPT ![cid][1].steps = Append(@, StepRecord(sid + 1, cid, step_name, now))]

\* SQLiteWorkflowRepository.mark_step_completed: UPDATE ... WHERE
\* correlation_id = ? AND step_name = ?
sqlite_mark_step_completed(r, now, cid, step_name, status, output) ==
    [r EXCEPT ![cid][1].steps =
        [i \in 1..Len(@) |->
            IF @[i].step_name = step_name
            THEN [@[i] EXCEPT !.completed_at = now, !.status = status,
                              !.output = output]
            ELSE @[i]]]

\* SQLiteWorkflowRepository.create_workflow: INSERT INTO workflows, whose
\* primary key is correlation_id
sqlite_create_workflow(c) ==
    /\ IF repo[c] = <<>>
       THEN /\ repo' = create_workflow(repo, c, RoutingSlip(<<ActivitySpec("A")>>),
                                       EmptyDict)
            /\ ev' = Ev("create_workflow", "client", c, "ok", "-", Row(c), Row(c)', 0)
       ELSE /\ repo' = repo
            /\ ev' = Ev("create_workflow", "client", c, "IntegrityError", "-",
                        Row(c), Row(c), 0)
    /\ UNCHANGED <<life, backend, hist, d_itinerary, d_registry, uuids, dispatched,
                   queues, lock, wpc, held, wres, dmsg, step_id, clock, grown>>

sqlite_step_started(c, step_name) ==
    /\ repo[c] # <<>>
    /\ Len(repo[c][1].steps) < MaxRows
    /\ \E now \in Nows :
         /\ repo' = sqlite_mark_step_started(repo, step_id, now, c, step_name)
         /\ clock' = now
    /\ step_id' = step_id + 1
    /\ ev' = Ev("mark_step_started", "client", c, "ok", step_name, Row(c), Row(c)', 0)
    /\ UNCHANGED <<life, backend, hist, d_itinerary, d_registry, uuids, dispatched,
                   queues, lock, wpc, held, wres, dmsg, grown>>

sqlite_step_completed(c, step_name, status) ==
    /\ repo[c] # <<>>
    /\ \E now \in Nows :
         /\ repo' = sqlite_mark_step_completed(repo, now, c, step_name, status, <<>>)
         /\ clock' = IF repo' # repo THEN now ELSE clock
    /\ ev' = EvR("mark_step_completed", "client", c, "ok", step_name, Row(c),
                 Row(c)', 0, status)
    /\ UNCHANGED <<life, backend, hist, d_itinerary, d_registry, uuids, dispatched,
                   queues, lock, wpc, held, wres, dmsg, step_id, grown>>

NextSqlite ==
    \/ \E c \in Cids : sqlite_create_workflow(c)
    \/ \E c \in Cids, a \in Agents : sqlite_step_started(c, a)
    \/ \E c \in Cids, a \in Agents, st \in StepStatuses :
          sqlite_step_completed(c, a, st)

SpecSqlite == Init /\ [][NextSqlite]_vars

(***************************************************************************)
(* The same calls made on an InMemoryWorkflowRepository and on a           *)
(* SQLiteWorkflowRepository.  In this specification repo is the in-memory  *)
(* repository and dispatched is the SQLite database: dispatched[c] is what *)
(* its get_workflow(c) returns.                                            *)
(***************************************************************************)
\* update_routing_slip of the two repositories: the stored slip is replaced
update_routing_slip(r, cid, routing_slip) ==
    IF r[cid] = <<>> THEN r ELSE [r EXCEPT ![cid][1].routing_slip = routing_slip]

\* UPDATE workflows SET status = ? WHERE correlation_id = ?
sqlite_mark_workflow_completed(r, cid, status) ==
    IF r[cid] = <<>> THEN r ELSE [r EXCEPT ![cid][1].status = status]

InitBackends ==
    /\ d_itinerary = <<>>
    /\ d_registry = {}
    /\ uuids = 0
    /\ dispatched = [c \in Cids |-> <<>>]
    /\ queues = [t \in Agents |-> <<>>]
    /\ lock = "free"
    /\ wpc = [w \in Workers |-> "idle"]
    /\ held = [w \in Workers |-> <<>>]
    /\ wres = [w \in Workers |-> NoRes]
    /\ dmsg = <<>>
    /\ repo = [c \in Cids |-> <<>>]
    /\ step_id = 0
    /\ clock = 1
    /\ grown = [c \in Cids |-> 0]
    /\ ev = NoEv
    /\ life = [w \in Workers |-> "none"]
    /\ backend = "inmemory"
    /\ hist = NoHist

both_create_workflow(c) ==
    /\ repo[c] = <<>>
    /\ repo' = create_workflow(repo, c, RoutingSlip(<<ActivitySpec("A")>>), EmptyDict)
    /\ dispatched' = create_workflow(dispatched, c, RoutingSlip(<<ActivitySpec("A")>>),
                                     EmptyDict)
    /\ ev' = Ev("create_workflow", "client", c, "ok", "-", <<>>, <<>>, 0)
    /\ UNCHANGED <<life, backend, hist, d_itinerary, d_registry, uuids, queues, lock,
                   wpc, held, wres, dmsg, step_id, clock, grown>>

both_update_routing_slip(c, itin) ==
    /\ repo' = update_routing_slip(repo, c, RoutingSlip(itin))
    /\ dispatched' = update_routing_slip(dispatched, c, RoutingSlip(itin))
    /\ ev' = Ev("update_routing_slip", "client", c, "ok", "-", <<>>, <<>>, 0)
    /\ UNCHANGED <<life, backend, hist, d_itinerary, d_registry, uuids, queues, lock,
                   wpc, held, wres, dmsg, step_id, clock, grown>>

both_mark_step_started(c, step_name) ==
    /\ repo[c] # <<>>
    /\ Len(dispatched[c][1].steps) < MaxRows
    /\ \E now \in Nows :
         LET started == mark_step_started(repo, step_id, now, c, step_name)
         IN /\ repo' = started.repo
            /\ step_id' = started.step_id
            /\ dispatched' = sqlite_mark_step_started(dispatched,
                                 Len(dispatched[c][1].steps), now, c, step_name)
            /\ clock' = now
            /\ ev' = Ev("mark_step_started", "client", c,
                        IF started.raised # "" THEN started.raised ELSE "ok",
                        step_name, <<>>, <<>>, 0)
    /\ UNCHANGED <<life, backend, hist, d_itinerary, d_registry, uuids, queues, lock,
                   wpc, held, wres, dmsg, grown>>

both_mark_step_completed(c, step_name, status) ==
    /\ repo[c] # <<>>
    /\ \E now \in Nows :
         LET done == mark_step_completed(repo, now, c, step_name, status, <<>>)
         IN /\ repo' = done.repo
            /\ dispatched' = sqlite_mark_step_completed(dispatched, now, c, step_name,
                                                        status, <<>>)
            /\ clock' = IF done.repo # repo \/ dispatched' # dispatched
                        THEN now ELSE clock
            /\ ev' = EvR("mark_step_completed", "client", c,
                         IF done.raised # "" THEN done.raised ELSE "ok",
                         step_name, <<>>, <<>>, 0, status)
    /\ UNCHANGED <<life, backend, hist, d_itinerary, d_registry, uuids, queues, lock,
                   wpc, held, wres, dmsg, step_id, grown>>

both_update_payload(c, payload) ==
    /\ repo' = update_payload(repo, c, payload)
    /\ dispatched' = update_payload(dispatched, c, payload)
    /\ ev' = Ev("update_payload", "client", c, "ok", "-", <<>>, <<>>, 0)
    /\ UNCHANGED <<life, backend, hist, d_itinerary, d_registry, uuids, queues, lock,
                   wpc, held, wres, dmsg, step_id, clock, grown>>

both_mark_workflow_completed(c, status) ==
    /\ repo' = mark_workflow_completed(repo, c, status)
    /\ dispatched' = sqlite_mark_workflow_completed(dispatched, c, status)
    /\ ev' = EvR("mark_workflow_completed", "client", c, "ok", "-", <<>>, <<>>, 0,
                 status)
    /\ UNCHANGED <<life, backend, hist, d_itinerary, d_registry, uuids, queues, lock,
                   wpc, held, wres, dmsg, step_id, clock, grown>>

NextBackends ==
    \/ \E c \in Cids : both_create_workflow(c)
    \/ \E c \in Cids, itin \in SeqsUpTo(Insertable, 1) : both_update_routing_slip(c, itin)
    \/ \E c \in Cids, a \in ItineraryAgents : both_mark_step_started(c, a)
    \/ \E c \in Cids, a \in ItineraryAgents, st \in StepStatuses :
          both_mark_step_completed(c, a, st)
    \/ \E c \in Cids, pl \in Payloads : both_update_payload(c, pl)
    \/ \E c \in Cids, st \in StepStatuses : both_mark_workflow_completed(c, st)

SpecBackends == InitBackends /\ [][NextBackends]_vars

(***************************************************************************)
(* Properties.                                                             *)
(***************************************************************************)
\* every envelope in the system: queued, held by a worker or by the driver
Envelopes ==
    UNION {{queues[t][i] : i \in 1..Len(queues[t])} : t \in Agents}
    \cup UNION {{held[w][i] : i \in 1..Len(held[w])} : w \in Workers}
    \cup {dmsg[i] : i \in 1..Len(dmsg)}

Queued == UNION {{queues[t][i] : i \in 1..Len(queues[t])} : t \in Agents}

Names(steps) == {steps[i].agent_name : i \in 1..Len(steps)}

\* a worker's delivery has ended: the handler raised, or the iteration went
\* through forward and ack, or the forward is stuck in publish
Ended(w) == wpc[w] \in {"raised", "idle", "blocked"} /\ wres[w].pre # <<>>

\* C1: at-least-once redelivery: whenever the processing of a received
\* envelope ends without an ack, the transport later delivers the same
\* envelope (same message_id) again to a subscriber of the same topic.
C1_Redelivery ==
    \A w \in Workers : \A m \in 1..MaxWorkflows :
        [](  (wpc[w] = "raised" /\ held[w] # <<>> /\ held[w][1].message_id = m)
          => <>(wpc[w] = "received" /\ held[w] # <<>>
                /\ held[w][1].message_id = m))

\* C2: progress: a delivery whose agent run succeeds is processed to the
\* end, and then the itinerary is the one before without its head plus the
\* steps inserted in this delivery, and executed is the one before with the
\* old head appended.
C2_Progress ==
    \A w \in Workers :
        (Ended(w) /\ wres[w].agent = "ok") =>
            LET before == wres[w].pre[1].routing_slip
                after == held[w][1].routing_slip
            IN /\ before.itinerary # <<>>
               /\ Len(after.itinerary) = Len(before.itinerary) - 1
                     + (after.inserted_steps - before.inserted_steps)
               /\ after.executed = Append(before.executed, Head(before.itinerary))

\* C3: insertion bound: over the whole life of a workflow the number of
\* steps inserted with the workflow's edit limit never exceeds the limit,
\* and inserted_steps equals the number of steps actually inserted.
C3_InsertionBound ==
    /\ \A c \in Cids : grown[c] <= EditLimit
    /\ \A e \in Envelopes :
          /\ e.routing_slip.inserted_steps <= EditLimit
          /\ e.routing_slip.inserted_steps = grown[e.correlation_id]

\* C3 witness: an insertion was asked for more steps than the remaining
\* budget on a later hop of the workflow, and the budget is used up
C3_Witness ==
    /\ ev.op = "edit_itinerary"
    /\ ev.n > ev.ret
    /\ ev.pre[1].routing_slip.executed # <<>>
    /\ ev.post[1].routing_slip.inserted_steps = EditLimit
    /\ grown[ev.cid] = EditLimit

\* C4: idempotent step persistence: a repeated mark_step_started on a triple
\* that has a record returns and changes nothing, and after
\* mark_step_completed(status=completed) on a triple that has a record the
\* history holds exactly one record for it, completed, with the start value
\* unchanged, and unchanged altogether if it was already completed.
C4_IdempotentStepPersistence ==
    \A c \in Cids : \A a \in Agents :
        LET HasRecord(row) ==
                row # <<>> /\ \E i \in 1..Len(row[1].steps) :
                                 row[1].steps[i].step_name = a
            Rec(row) == LET i == CHOOSE i \in 1..Len(row[1].steps) :
                                     row[1].steps[i].step_name = a
                        IN row[1].steps[i]
        IN (ev.cid = c /\ ev.topic = a /\ HasRecord(ev.pre)) =>
            /\ ev.op = "mark_step_started" =>
                  ev.result = "ok" /\ ev.post = ev.pre
            /\ (ev.op = "mark_step_completed" /\ ev.ret = "completed") =>
                  /\ ev.result = "ok"
                  /\ Cardinality({i \in 1..Len(ev.post[1].steps) :
                                    ev.post[1].steps[i].step_name = a}) = 1
                  /\ Rec(ev.post).started_at = Rec(ev.pre).started_at
                  /\ IF Rec(ev.pre).completed_at # 0
                     THEN Rec(ev.post) = Rec(ev.pre)
                     ELSE Rec(ev.post).status = "completed"

\* C5: topic routing: a publish made by forward_to_next_step uses as topic
\* the agent_name of the head of the slip after the current step was marked
\* complete, and an envelope is never queued on any other topic.
C5_TopicRouting ==
    /\ \A t \in Agents : \A i \in 1..Len(queues[t]) :
          /\ queues[t][i].routing_slip.itinerary # <<>>
          /\ Head(queues[t][i].routing_slip.itinerary).agent_name = t
    /\ (ev.op = "forward_to_next_step" /\ ev.topic # "-") =>
          LET before == ev.pre[1].routing_slip
              after == ev.post[1].routing_slip
          IN /\ after = mark_complete(before, Head(before.itinerary))
             /\ after.executed = Append(before.executed, Head(before.itinerary))
             /\ ev.topic = Head(after.itinerary).agent_name
             /\ Last(queues[ev.topic]) = ev.post[1]
             /\ \A t \in Agents \ {ev.topic} : ev.post[1] \notin
                    {queues[t][i] : i \in 1..Len(queues[t])}

\* C5 witness: a forward has published to the topic of the new head, which
\* is not the topic of the step it completed
C5_Witness ==
    /\ ev.op = "forward_to_next_step"
    /\ ev.topic # "-"
    /\ ev.topic # Head(ev.pre[1].routing_slip.itinerary).agent_name
    /\ Last(queues[ev.topic]) = ev.post[1]

\* C6: terminal step: when the forward of the last step of a workflow ends
\* (the itinerary is empty after mark_complete), nothing is published and
\* the repository status of the workflow is completed.
C6_TerminalStep ==
    (/\ ev.op \in {"forward_to_next_step", "agent_run"}
     /\ ev.result = "ok"
     /\ ev.pre # <<>>
     /\ ev.pre[1].routing_slip.itinerary # <<>>
     /\ ev.post[1].routing_slip.itinerary = <<>>
     /\ repo[ev.cid] # <<>>) =>
        /\ \A e \in Queued : e.correlation_id # ev.cid
        /\ repo[ev.cid][1].status = "completed"

\* C7: dispatch postcondition: after dispatch_workflow returned a
\* correlation_id, the repository holds a row for it with status
\* in_progress and exactly one envelope was published, on the topic of the
\* first step, with the whole itinerary, executed empty, inserted_steps 0.
C7_DispatchPostcondition ==
    (ev.op = "dispatch_workflow" /\ ev.result = "ok") =>
        /\ repo[ev.cid] # <<>>
        /\ repo[ev.cid][1].status = "in_progress"
        /\ ev.topic = Head(d_itinerary).agent_name
        /\ Cardinality({e \in Queued : e.correlation_id = ev.cid}) = 1
        /\ Last(queues[ev.topic]).correlation_id = ev.cid
        /\ Last(queues[ev.topic]).routing_slip = RoutingSlip(d_itinerary)

\* C8: a dispatch with an empty itinerary fails with an invalid-
\* configuration error (ValueError) and leaves no trace: no repository row,
\* nothing published.
C8_EmptyItineraryDispatch ==
    (ev.op = "dispatch_workflow" /\ d_itinerary = <<>>) =>
        /\ ev.result = "ValueError"
        /\ \A c \in Cids : repo[c] = <<>>
        /\ \A t \in Agents : queues[t] = <<>>

C10_TwoStepForwarding ==
    (/\ Ended("A")
     /\ wres["A"].agent = "ok"
     /\ wres["A"].pre[1].routing_slip =
            RoutingSlip(<<ActivitySpec("A"), ActivitySpec("B")>>)
     /\ DOMAIN wres["A"].pre[1].payload = {}) =>
        /\ wres["A"].raised = ""
        /\ wpc["A"] = "idle"
        /\ queues["A"] = <<>>
        /\ Len(queues["B"]) = 1
        /\ queues["B"][1].routing_slip.executed = <<ActivitySpec("A")>>
        /\ queues["B"][1].routing_slip.itinerary = <<ActivitySpec("B")>>
        /\ \E out \in Outputs : queues["B"][1].payload = [A |-> out]

\* C11: redelivery of a completed step: when the envelope of a step is
\* delivered a second time after the agent of an earlier delivery returned,
\* and the agent does not fail, the second delivery is processed without
\* error, the step has exactly one record, completed, and over all the
\* deliveries exactly one envelope was forwarded to the topic of the next
\* step.
C11_RedeliveryOfCompletedStep ==
    \A w \in Workers :
        (/\ Ended(w)
         /\ wres[w].agent # "failed"
         /\ hist.delivered[wres[w].pre[1].message_id] >= 2
         /\ hist.ran[wres[w].pre[1].message_id] >= 1
         /\ Len(wres[w].pre[1].routing_slip.itinerary) >= 2
         /\ repo[wres[w].pre[1].correlation_id] # <<>>) =>
            LET m == wres[w].pre[1]
                steps == repo[m.correlation_id][1].steps
                mine == {i \in 1..Len(steps) : steps[i].step_name = w}
            IN /\ wres[w].raised = ""
               /\ Cardinality(mine) = 1
               /\ \A i \in mine : steps[i].status = "completed"
               /\ hist.published[m.routing_slip.itinerary[2].agent_name] = 1

\* C12: mid-flight insertion order: when the agent of a worker returns steps
\* to insert and the edit budget is not used up, the delivery is processed
\* without error and the envelope is published next to the topic of the first
\* inserted step, with the inserted steps ahead of every step that was
\* already scheduled behind the inserting step and inserted_steps raised by
\* the number inserted.
C12_MidFlightInsertionOrder ==
    \A w \in Workers :
        (/\ Ended(w)
         /\ wres[w].agent = "ok"
         /\ wres[w].added # <<>>
         /\ wres[w].pre[1].routing_slip.inserted_steps < EditLimit
         /\ Len(wres[w].pre[1].routing_slip.itinerary) >= 2) =>
            LET before == wres[w].pre[1].routing_slip
                k == Min(Len(wres[w].added), EditLimit - before.inserted_steps)
                topic == wres[w].added[1].agent_name
            IN /\ wres[w].raised = ""
               /\ \E i \in 1..Len(queues[topic]) :
                     LET slip == queues[topic][i].routing_slip
                     IN /\ queues[topic][i].correlation_id
                              = wres[w].pre[1].correlation_id
                        /\ slip.inserted_steps = before.inserted_steps + k
                        /\ slip.itinerary = Prefix(wres[w].added, k)
                                             \o Tail(before.itinerary)
                        /\ slip.executed = Append(before.executed,
                                                  Head(before.itinerary))

\* C13: insert_activities(new_steps, limit) on a slip with a non-empty
\* itinerary inserts the first k = min(|new_steps|, max(0, limit -
\* inserted_steps)) of new_steps, in order, at position 1, leaves the head
\* and the order of the other steps unchanged, adds k to inserted_steps and
\* returns k.
C13_InsertActivities ==
    (ev.op = "insert_activities" /\ ev.pre[1].itinerary # <<>>) =>
        LET b == ev.pre[1]
            a == ev.post[1]
            new == ev.topic
            room == IF ev.n - b.inserted_steps > 0 THEN ev.n - b.inserted_steps
                    ELSE 0
            k == IF Len(new) < room THEN Len(new) ELSE room
        IN /\ ev.ret = k
           /\ a.inserted_steps = b.inserted_steps + k
           /\ a.executed = b.executed
           /\ Len(a.itinerary) = Len(b.itinerary) + k
           /\ a.itinerary[1] = b.itinerary[1]
           /\ \A i \in 1..k : a.itinerary[1 + i] = new[i]
           /\ \A i \in 2..Len(b.itinerary) : a.itinerary[i + k] = b.itinerary[i]

\* C13 witness: a call that inserted a step ahead of a step already
\* scheduled and dropped the rest of new_steps
C13_Witness ==
    /\ ev.op = "insert_activities"
    /\ Len(ev.pre[1].itinerary) >= 2
    /\ ev.ret >= 1
    /\ Len(ev.topic) > ev.ret
    /\ ev.topic[1] # ev.topic[2]
    /\ ev.post[1].itinerary[2] = ev.topic[1]
    /\ ev.post[1].itinerary[3] = ev.pre[1].itinerary[2]

\* C14: single-step happy path with variables: a one-step workflow
\* dispatched with non-empty variables and recorded in the repository is
\* handled by its worker without error when the agent does not fail, and
\* afterwards the repository has the agent's output in the payload under the
\* agent's name and exactly one step record for the step, completed.
C14_SingleStepWithVariables ==
    \A w \in Workers :
        (/\ Ended(w)
         /\ wres[w].agent # "failed"
         /\ wres[w].pre[1].routing_slip = RoutingSlip(<<ActivitySpec(w)>>)
         /\ DOMAIN wres[w].pre[1].payload # {}
         /\ repo[wres[w].pre[1].correlation_id] # <<>>) =>
            LET row == repo[wres[w].pre[1].correlation_id][1]
                mine == {i \in 1..Len(row.steps) : row.steps[i].step_name = w}
            IN /\ wres[w].raised = ""
               /\ w \in DOMAIN row.payload
               /\ row.payload[w] \in Outputs
               /\ Cardinality(mine) = 1
               /\ \A i \in mine : row.steps[i].status = "completed"

\* C15: agent failure: when the agent's run raised and the step has a
\* record in the repository, the worker has recorded the step as failed with
\* the error text and re-raised the agent's error, and has done nothing
\* else: the slip and the payload of the envelope are unchanged, nothing is
\* published and the workflow status is not completed.
C15_AgentFailure ==
    \A w \in Workers :
        (/\ wpc[w] = "raised"
         /\ wres[w].agent = "failed"
         /\ repo[held[w][1].correlation_id] # <<>>
         /\ \E i \in 1..Len(repo[held[w][1].correlation_id][1].steps) :
               repo[held[w][1].correlation_id][1].steps[i].step_name = w) =>
            LET row == repo[held[w][1].correlation_id][1]
                mine == {i \in 1..Len(row.steps) : row.steps[i].step_name = w}
            IN /\ wres[w].raised = "AgentError"
               /\ \A i \in mine : /\ row.steps[i].status = "failed"
                                   /\ row.steps[i].output = <<"error", "boom">>
               /\ held[w][1] = wres[w].pre[1]
               /\ w \notin DOMAIN held[w][1].payload
               /\ \A e \in Queued : e.correlation_id # held[w][1].correlation_id
               /\ row.status # "completed"

\* C16: SQLite repository: duplicate calls do not create duplicate records:
\* whatever calls were repeated, get_workflow returns at most one step
\* record for a workflow and step, and after mark_step_completed(status =
\* completed) on a step that has a record it returns exactly one record for
\* that step, with status completed.
C16_SqliteNoDuplicateRecords ==
    \A c \in Cids :
        repo[c] # <<>> =>
            \A a \in Agents :
                LET mine == {i \in 1..Len(repo[c][1].steps) :
                               repo[c][1].steps[i].step_name = a}
                IN /\ Cardinality(mine) <= 1
                   /\ (/\ ev.op = "mark_step_completed"
                       /\ ev.cid = c
                       /\ ev.topic = a
                       /\ ev.ret = "completed"
                       /\ mine # {}) =>
                          \A i \in mine : repo[c][1].steps[i].status = "completed"

\* C18: no lock is held across a suspension point: the queue lock of the
\* in-memory transport is free whenever a subscriber is processing an
\* envelope that subscribe yielded.
C18_NoLockAcrossSuspension ==
    \A w \in Workers :
        (held[w] # <<>> /\ wpc[w] \in {"received", "agent"}) => lock = "free"

\* C17: per-topic FIFO: two envelopes published to the same topic are
\* delivered in the order in which they were published: no envelope is still
\* queued on a topic when an envelope published to that topic after it (one
\* with a greater message_id) has been delivered.
C17_PerTopicFIFO ==
    \A w \in Workers :
        wres[w].pre # <<>> =>
            \A i \in 1..Len(queues[w]) :
                queues[w][i].message_id > wres[w].pre[1].message_id

\* C17 witness: all the envelopes were published to one topic, and its
\* consumer has received the first and then the second of them while the
\* third is queued
C17_Witness ==
    \E w \in Workers :
        /\ hist.published[w] = MaxMessages
        /\ wres[w].pre # <<>>
        /\ wres[w].pre[1].message_id = 2
        /\ hist.delivered[1] = 1
        /\ hist.delivered[2] = 1
        /\ Len(queues[w]) = MaxMessages - 2

\* C20: a subscription opened with a positive lifespan terminates on every
\* backend: after start(lifespan) or subscribe(topic, lifespan) was called
\* with a positive lifespan, the loop of the subscription eventually ends
\* and the consumer returns, even if no message arrives.
C20_LifespanTerminates ==
    \A w \in Workers :
        []((ev.op \in {"start", "subscribe_call"} /\ ev.who = w /\ ev.n = 1)
            => <>(wpc[w] = "returned"))

\* C19: lifespan expiry never abandons an in-progress delivery: when the
\* lifespan has elapsed while the worker is handling an envelope and the
\* agent returns, the worker completes the iteration (handling, forward and
\* ack): the handler does not raise and the loop goes on to its next round,
\* where the expiry stops it.
C19_ExpiryCompletesIteration ==
    [][\A w \in Workers :
          (/\ wpc[w] = "agent"
           /\ life[w] = "elapsed"
           /\ wpc'[w] # "agent"
           /\ wres'[w].agent = "ok") =>
              (wres'[w].raised = "" /\ wpc'[w] = "idle")]_vars


\* a round of a subscription has dropped an item of the topic of w
Dropped(w) == ev.op = "subscribe" /\ ev.who = w /\ ev.result # "ok"

\* C21: an item of a topic that does not decode as an envelope is dropped
\* by the subscription: nothing is yielded to the consumer, the item leaves
\* the topic and does not come back on it, the repository is not written,
\* and the subscription goes on to yield the next valid envelope of the topic
C21_MalformedDropped ==
    /\ [][(ev'.op = "subscribe" /\ ev'.result # "ok") =>
             LET w == ev'.who
             IN /\ held' = held /\ wpc' = wpc /\ hist' = hist
                /\ repo' = repo /\ step_id' = step_id
                /\ Len(queues'[w]) = Len(queues[w]) - 1
                /\ BadCount(queues'[w]) = BadCount(queues[w]) - 1
                /\ \A t \in Topics \ {w} : queues'[t] = queues[t]]_vars
    /\ \A w \in Topics, m \in Mids :
          (Dropped(w) /\ FirstValid(queues[w]) = m) ~> (hist.delivered[m] > 0)

C21_Witness ==
    \E w \in Topics : Dropped(w) /\ FirstValid(queues[w]) # 0 /\ repo[1][1].steps # <<>>

\* worker w holds a delivery whose itinerary head names another agent
Misrouted(w) ==
    /\ held[w] # <<>>
    /\ wres[w].pre # <<>>
    /\ wres[w].pre[1].routing_slip.itinerary # <<>>
    /\ Head(wres[w].pre[1].routing_slip.itinerary).agent_name # w

\* C22: misrouted delivery: a worker that holds an envelope whose itinerary
\* head names another agent rejects it: none of its steps runs the agent,
\* writes to the repository, changes the envelope or publishes
C22_MisroutedDelivery ==
    [][\A w \in Workers :
          (Misrouted(w) /\ ev'.who = w) =>
              /\ repo' = repo
              /\ hist'.ran = hist.ran
              /\ wpc'[w] # "agent"
              /\ held'[w] # <<>> => held'[w] = held[w]
              /\ hist'.published = hist.published]_vars

TwiceAtHead(slip, step) ==
    /\ Len(slip.itinerary) >= 2
    /\ slip.itinerary[1] = step
    /\ slip.itinerary[2] = step

\* C24 as stated: mark_complete(step) leaves the slip unchanged when the
\* head is not the step, and a second mark_complete(step) right after a
\* first one leaves the slip as the first one left it
C24_MarkCompleteIdempotent ==
    [][ev'.op = "mark_complete" =>
          LET step == ev'.topic[1]
              before == ev'.pre[1]
              after == ev'.post[1]
          IN /\ (before.itinerary = <<>> \/ Head(before.itinerary) # step) =>
                    after = before
             /\ (ev.op = "mark_complete" /\ ev.topic = ev'.topic) =>
                    after = before]_vars

\* C24 amended: mark_complete(step) leaves the slip unchanged when the head
\* is not the step and otherwise moves the head to the end of executed; a
\* second mark_complete(step) right after a first one leaves the slip as the
\* first one left it unless the itinerary started with the step twice, in
\* which case the second call completes the second copy
C24_MarkCompleteHeadGuarded ==
    [][ev'.op = "mark_complete" =>
          LET step == ev'.topic[1]
              before == ev'.pre[1]
              after == ev'.post[1]
          IN /\ (before.itinerary = <<>> \/ Head(before.itinerary) # step) =>
                    after = before
             /\ (before.itinerary # <<>> /\ Head(before.itinerary) = step) =>
                    /\ after.itinerary = Tail(before.itinerary)
                    /\ after.executed = Append(before.executed, step)
                    /\ after.inserted_steps = before.inserted_steps
             /\ (ev.op = "mark_complete" /\ ev.topic = ev'.topic) =>
                    IF TwiceAtHead(ev.pre[1], step)
                    THEN after.executed = Append(Append(ev.pre[1].executed, step), step)
                    ELSE after = before]_vars

\* a second mark_complete of the step that the first one completed
C24_Witness ==
    /\ ev.op = "mark_complete"
    /\ ev.pre[1].executed # <<>>
    /\ Last(ev.pre[1].executed) = ev.topic[1]
    /\ ev.post = ev.pre
    /\ ev.pre[1].itinerary # <<>>

\* the number of entries of a sequence of envelopes that belong to workflow c
RECURSIVE CountOf(_, _)
CountOf(s, c) ==
    IF s = <<>> THEN 0
    ELSE (IF Head(s).correlation_id = c THEN 1 ELSE 0) + CountOf(Tail(s), c)

\* the places where the envelope of workflow c is: entries of the topics,
\* workers that hold it between receive and ack, the caller that took it
Places(c) ==
    CountOf(queues["A"], c) + CountOf(queues["B"], c) + CountOf(queues["F"], c)
    + CountOf(held["A"], c) + CountOf(held["B"], c) + CountOf(held["F"], c)
    + CountOf(dmsg, c)

C26_AllowList ==
    \A e \in Envelopes :
        Names(e.routing_slip.itinerary) \cup Names(e.routing_slip.executed)
            \subseteq Names(dispatched[e.correlation_id].itinerary) \cup d_registry

\* C27: the activity registry handed to a worker is immutable after
\* dispatch: a run of the insertion, with or without an overridden prompt,
\* leaves every entry of the registry as it was
C27_RegistryImmutable ==
    [][ev'.op = "_edit_itinerary" => d_registry' = d_registry]_vars

\* the follow-up names of a call that the registry does not hold
Unknown(fu, registry) ==
    {i \in 1..Len(fu) : fu[i].agent_name \notin DOMAIN registry}

\* C28: an unknown follow-up name is a soft error: the call raises nothing,
\* the activities it returns hold no entry for that name (so that nothing is
\* inserted or counted for it) and hold the entry of every other name
C28_UnknownNameSkipped ==
    (ev.op = "_edit_itinerary" /\ ev.pre # <<>> /\ Unknown(ev.topic, ev.pre[1]) # {}) =>
        /\ ev.result = "ok"
        /\ \A i \in 1..Len(ev.post) : ev.post[i] # PyNone
        /\ Len(ev.post) = Len(ev.topic) - Cardinality(Unknown(ev.topic, ev.pre[1]))
        /\ {ev.post[i].agent_name : i \in 1..Len(ev.post)} =
              {ev.topic[i].agent_name : i \in 1..Len(ev.topic)} \cap DOMAIN ev.pre[1]

Restored(v) == IF v.type = "tuple" THEN [v EXCEPT !.type = "list"] ELSE v

C30_MessageIdPerPublication ==
    (ev.op = "forward_to_next_step" /\ ev.topic # "-") =>
        /\ ev.post[1].correlation_id = ev.pre[1].correlation_id
        /\ ev.post[1].message_id # ev.pre[1].message_id

\* C31: the envelope dispatch_workflow publishes carries payload equal to
\* the given variables, obo_token equal to the given token, an
\* activity_registry equal to the registry of the dispatcher, and trace_id
\* equal to the correlation_id that dispatch returns
C31_DispatchedEnvelope ==
    (ev.op = "dispatch_workflow" /\ ev.result = "ok") =>
        LET e == ev.post[1]
            given == dispatched[ev.cid]
        IN /\ e.correlation_id = ev.cid
           /\ e.payload = given.variables
           /\ e.obo_token = given.obo_token
           /\ e.trace_id # "None"
           /\ e.trace_id = e.correlation_id
           /\ "activity_registry" \in DOMAIN e
           /\ e.activity_registry = d_registry

\* the indices of the records of step a in the history of a row
RecordsOf(row, a) ==
    IF row = <<>> THEN {}
    ELSE {i \in 1..Len(row[1].steps) : row[1].steps[i].step_name = a}

\* C32: step record lifecycle: the first mark_step_started of a step of a
\* workflow creates its record, the first mark_step_completed of the step
\* sets status and completion time of the record, a later completion,
\* whatever its status, leaves the record unchanged, and no record is ever
\* removed from the history
C32_StepRecordLifecycle ==
    (ev.op \in {"create_workflow", "mark_step_started", "mark_step_completed",
                "update_payload", "mark_workflow_completed"}) =>
        /\ ev.pre # <<>> =>
              /\ ev.post # <<>>
              /\ Len(ev.post[1].steps) >= Len(ev.pre[1].steps)
              /\ \A i \in 1..Len(ev.pre[1].steps) :
                    /\ ev.post[1].steps[i].id = ev.pre[1].steps[i].id
                    /\ ev.post[1].steps[i].step_name = ev.pre[1].steps[i].step_name
        /\ (ev.op = "mark_step_started" /\ ev.pre # <<>>
              /\ RecordsOf(ev.pre, ev.topic) = {}) =>
              Cardinality(RecordsOf(ev.post, ev.topic)) = 1
        /\ ev.op = "mark_step_completed" =>
              \A i \in RecordsOf(ev.pre, ev.topic) :
                  IF ev.pre[1].steps[i].completed_at = 0
                  THEN /\ ev.post[1].steps[i].status = ev.ret
                       /\ ev.post[1].steps[i].completed_at # 0
                  ELSE ev.post[1].steps[i] = ev.pre[1].steps[i]

\* what the claim compares of the result of get_workflow
WorkflowView(row) ==
    IF row = <<>> THEN <<>>
    ELSE <<[status |-> row[1].status, payload |-> row[1].payload,
            routing_slip |-> row[1].routing_slip,
            steps |-> [i \in 1..Len(row[1].steps) |->
                         <<row[1].steps[i].step_name, row[1].steps[i].status,
                           row[1].steps[i].output>>]]>>

\* C33: the repository backends are interchangeable: after the same calls
\* get_workflow on the SQLite repository returns the status, the payload,
\* the routing slip and the step records (names, statuses, outputs) that
\* get_workflow on the in-memory repository returns
C33_BackendsInterchangeable ==
    \A c \in Cids : WorkflowView(dispatched[c]) = WorkflowView(repo[c])

C35_OrderOfEffects ==
    \A w \in Workers :
        (/\ Ended(w)
         /\ wres[w].agent = "ok"
         /\ repo[held[w][1].correlation_id] # <<>>) =>
            LET row == repo[held[w][1].correlation_id][1]
            IN /\ w \in DOMAIN row.payload
               /\ \E i \in 1..Len(row.steps) :
                     /\ row.steps[i].step_name = w
                     /\ row.steps[i].status = "completed"
               /\ wpc[w] \in {"idle", "blocked"}

\* the workflow c has just reached its end: a forward left its envelope with
\* an empty itinerary and no topic holds an envelope of c
Terminated(c) ==
    /\ ev.op \in {"forward_to_next_step", "agent_run"}
    /\ ev.cid = c
    /\ ev.result = "ok"
    /\ ev.post # <<>>
    /\ ev.post[1].routing_slip.itinerary = <<>>
    /\ \A e \in Queued : e.correlation_id # c

\* C36: bounded workflows terminate: with a worker for every topic, fair
\* scheduling and no failing agent, every dispatched workflow eventually
\* reaches an empty itinerary with no envelope left on any topic (runs in
\* which an agent fails or the envelope is taken from its topic by hand
\* are left out)
C36_Termination ==
    \A c \in Cids :
        [](  (Len(dispatched) >= c)
          => <>(\/ Terminated(c)
                \/ \E w \in Workers : wres[w].agent = "failed"
                \/ dmsg # <<>>))

\* the message_id of an entry of the topic: the envelope itself on the
\* in-memory transport, the text of to_json on redis
EntryId(entry) ==
    IF "doc" \in DOMAIN entry THEN entry.doc[1].message_id ELSE entry.message_id

\* C37: competing consumers: with several subscribers on one topic every
\* published envelope is either still on the topic, once, or has been
\* yielded to exactly one subscriber; none is yielded twice, none leaves
\* the topic without being yielded, and no two subscribers hold the same
\* envelope
C37_CompetingConsumers ==
    /\ \A mid \in Mids :
          hist.delivered[mid]
          + Cardinality({i \in 1..Len(queues[CompeteTopic]) :
                            EntryId(queues[CompeteTopic][i]) = mid})
            = (IF mid <= uuids THEN 1 ELSE 0)
    /\ \A w1, w2 \in Workers :
          (w1 # w2 /\ held[w1] # <<>> /\ held[w2] # <<>>) =>
              held[w1][1].message_id # held[w2][1].message_id

C37_Witness ==
    /\ uuids >= 2
    /\ queues[CompeteTopic] = <<>>
    /\ \E w1, w2 \in Workers :
          /\ w1 # w2
          /\ held[w1] # <<>>
          /\ held[w2] # <<>>

\* s is a subsequence of t: the entries of s occur in t in the same order
RECURSIVE IsSubseq(_, _)
IsSubseq(s, t) ==
    IF s = <<>> THEN TRUE
    ELSE IF t = <<>> THEN FALSE
    ELSE IF Head(s) = Head(t) THEN IsSubseq(Tail(s), Tail(t))
    ELSE IsSubseq(s, Tail(t))

\* the steps of a slip in the order of execution: those done, then those left
AllSteps(slip) == slip.executed \o slip.itinerary

\* C38: step conservation: for every envelope, len(itinerary) +
\* len(executed) is the length of the dispatched itinerary plus
\* inserted_steps and the dispatched steps are all there in their order;
\* an edit or a forward keeps every step of the slip before it, adds only
\* what inserted_steps counts, and changes executed only by appending
C38_StepConservation ==
    /\ \A e \in Envelopes :
          LET slip == e.routing_slip
              given == dispatched[e.correlation_id].itinerary
          IN /\ Len(slip.itinerary) + Len(slip.executed)
                   = Len(given) + slip.inserted_steps
             /\ IsSubseq(given, AllSteps(slip))
    /\ (ev.op \in {"edit_itinerary", "forward_to_next_step", "agent_run"}
         /\ ev.pre # <<>> /\ ev.post # <<>>) =>
          LET before == ev.pre[1].routing_slip
              after == ev.post[1].routing_slip
          IN /\ IsSubseq(AllSteps(before), AllSteps(after))
             /\ Len(AllSteps(after)) - Len(AllSteps(before))
                   = after.inserted_steps - before.inserted_steps
             /\ Len(after.executed) >= Len(before.executed)
             /\ SubSeq(after.executed, 1, Len(before.executed)) = before.executed

C38_Witness ==
    \E e \in Queued :
        /\ e.routing_slip.executed # <<>>
        /\ e.routing_slip.inserted_steps > 0
        /\ Len(e.routing_slip.itinerary) + Len(e.routing_slip.executed)
              > Len(dispatched[e.correlation_id].itinerary)

C40_SlipNeverPersisted ==
    \A c \in Cids :
        repo[c] # <<>> =>
            /\ repo[c][1].routing_slip = RoutingSlip(dispatched[c].itinerary)
            /\ repo[c][1].correlation_id = c
            /\ DOMAIN repo[c][1] =
                  {"correlation_id", "routing_slip", "payload", "status", "steps"}

C40_Witness ==
    \E c \in Cids : \E w \in Workers :
        /\ repo[c] # <<>>
        /\ repo[c][1].steps # <<>>
        /\ held[w] # <<>>
        /\ held[w][1].correlation_id = c
        /\ held[w][1].routing_slip.executed # <<>>
        /\ held[w][1].routing_slip.inserted_steps > 0
        /\ held[w][1].routing_slip # repo[c][1].routing_slip
====
